---- MODULE Spec2Model ----
(***************************************************************************)
(* A model of Viceroy's in-memory KV / object store                        *)
(* (lib/src/object_store.rs): the registry of named stores, its insert,    *)
(* lookup, delete and list operations, and the base64 cursor of list.      *)
(*                                                                         *)
(* Strings and byte vectors are sequences of byte values (0..255); a key   *)
(* "a1" is <<97, 49>>.  Store names are only ever compared for equality,   *)
(* so they are TLA+ strings.                                               *)
(***************************************************************************)
EXTENDS Integers, Sequences, FiniteSets, TLC

VARIABLES
    stores,     \* ObjectStores.stores: store name -> (object key -> ObjectValue)
    poisoned,   \* whether the RwLock around `stores` is poisoned
    last,       \* the registry call that has just returned (arguments, result),
                \* until its caller takes the result
    pager,      \* what a caller paging through list has collected so far
    thr,        \* per-thread state of calls running concurrently on the registry
    reg0,       \* the registry contents when the concurrent calls began
    session,    \* Session: open store handles, pending operations, bodies
    table       \* ComponentCtx.table(): the LookupResult resources

vars == <<stores, poisoned, last, pager, thr, reg0, session, table>>

-----------------------------------------------------------------------------
(* Bounds of the model. *)

\* Capacity of the registry: the body bytes all its values hold together.
MaxBytes == 2
\* Largest `limit` passed to list.
MaxLimit == 2
\* Longest key that ObjectKey::new is given character by character (longer
\* keys are given as a few chosen ones).
MaxShortKey == 3
\* Most payloads after the version header in a binary given to mangle_imports.
MaxPayloads == 2
\* Largest max_len passed to the metadata accessor of a Lookup Result.
MaxBufferLen == 2
\* Most pending operations a session begins.
MaxPending == 2
\* Most stores a session opens.
MaxOpen == 1
\* Most conversions an error value goes through.
MaxChain == 3

-----------------------------------------------------------------------------
(* Option<T> and Result<T, E>. *)

None == [some |-> FALSE]
Some(x) == [some |-> TRUE, v |-> x]

Ok(x) == [ok |-> TRUE, val |-> x]
Err(e) == [ok |-> FALSE, err |-> e]
\* The call did not return: the thread panicked.
Panic == [ok |-> FALSE, err |-> "panic"]
Unit == "()"

-----------------------------------------------------------------------------
(* Byte strings: comparison, prefix test. *)

Min(a, b) == IF a < b THEN a ELSE b

\* starts_with: p is a prefix of s.
StartsWith(s, p) ==
    /\ Len(p) <= Len(s)
    /\ \A i \in 1..Len(p) : s[i] = p[i]

\* The strict order of String / Vec<u8> (derive(Ord) on ObjectKey(String)):
\* lexicographic over the bytes, a proper prefix first.
StrLess(a, b) ==
    \/ \E i \in 1..Min(Len(a), Len(b)) :
          /\ a[i] < b[i]
          /\ \A j \in 1..(i - 1) : a[j] = b[j]
    \/ /\ Len(a) < Len(b)
       /\ \A j \in 1..Len(a) : a[j] = b[j]

\* The keys of a BTreeMap in iteration order: ascending by StrLess.
RECURSIVE SortedSeq(_)
SortedSeq(S) ==
    IF S = {} THEN <<>>
    ELSE LET m == CHOOSE x \in S : \A y \in S \ {x} : StrLess(x, y)
         IN  <<m>> \o SortedSeq(S \ {m})

\* Vec::truncate(n): keeps the first n elements, no effect when n >= len.
Truncate(s, n) == IF n >= Len(s) THEN s ELSE SubSeq(s, 1, n)

-----------------------------------------------------------------------------
(* base64 (BASE64_STANDARD of the base64 crate) and UTF-8 validation, as   *)
(* used for the list cursor.  Characters are their ASCII codes.            *)

\* '=' , the padding character.
PadChar == 61

\* The i-th character (i in 0..63) of the standard alphabet A-Z a-z 0-9 + /.
B64Char(i) ==
    IF i < 26 THEN 65 + i
    ELSE IF i < 52 THEN 71 + i
    ELSE IF i < 62 THEN i - 4
    ELSE IF i = 62 THEN 43 ELSE 47

\* The 6-bit value of character c, or -1 when c is not in the alphabet.
B64Index(c) ==
    IF c \in 65..90 THEN c - 65
    ELSE IF c \in 97..122 THEN c - 71
    ELSE IF c \in 48..57 THEN c + 4
    ELSE IF c = 43 THEN 62
    ELSE IF c = 47 THEN 63 ELSE -1

\* BASE64_STANDARD.encode: 3 bytes -> 4 characters, the tail padded with '='.
RECURSIVE Base64Encode(_)
Base64Encode(b) ==
    IF Len(b) = 0 THEN <<>>
    ELSE IF Len(b) = 1 THEN
        <<B64Char(b[1] \div 4), B64Char((b[1] % 4) * 16), PadChar, PadChar>>
    ELSE IF Len(b) = 2 THEN
        <<B64Char(b[1] \div 4), B64Char((b[1] % 4) * 16 + (b[2] \div 16)),
          B64Char((b[2] % 16) * 4), PadChar>>
    ELSE
        <<B64Char(b[1] \div 4), B64Char((b[1] % 4) * 16 + (b[2] \div 16)),
          B64Char((b[2] % 16) * 4 + (b[3] \div 64)), B64Char(b[3] % 64)>>
        \o Base64Encode(SubSeq(b, 4, Len(b)))

\* BASE64_STANDARD.decode: Ok(bytes), or Err on a character outside the
\* alphabet, a length that is not a multiple of 4, padding anywhere but at the
\* end, or non-zero trailing bits (the engine requires canonical padding).
RECURSIVE Base64Decode(_)
Base64Decode(c) ==
    IF Len(c) = 0 THEN Ok(<<>>)
    ELSE IF Len(c) < 4 THEN Err("DecodeError")
    ELSE
        LET i1 == B64Index(c[1])
            i2 == B64Index(c[2])
            i3 == B64Index(c[3])
            i4 == B64Index(c[4])
            rest == SubSeq(c, 5, Len(c))
        IN  IF i1 < 0 \/ i2 < 0 THEN Err("DecodeError")
            ELSE IF c[3] = PadChar THEN
                IF c[4] = PadChar /\ Len(rest) = 0 /\ i2 % 16 = 0
                THEN Ok(<<i1 * 4 + (i2 \div 16)>>)
                ELSE Err("DecodeError")
            ELSE IF i3 < 0 THEN Err("DecodeError")
            ELSE IF c[4] = PadChar THEN
                IF Len(rest) = 0 /\ i3 % 4 = 0
                THEN Ok(<<i1 * 4 + (i2 \div 16), (i2 % 16) * 16 + (i3 \div 4)>>)
                ELSE Err("DecodeError")
            ELSE IF i4 < 0 THEN Err("DecodeError")
            ELSE
                LET r == Base64Decode(rest)
                IN  IF r.ok
                    THEN Ok(<<i1 * 4 + (i2 \div 16), (i2 % 16) * 16 + (i3 \div 4),
                              (i3 % 4) * 64 + i4>> \o r.val)
                    ELSE r

\* A UTF-8 continuation byte.
IsCont(x) == x \in 128..191

\* String::from_utf8 succeeds: the bytes are well-formed UTF-8 (no overlong
\* forms, no surrogates, nothing above U+10FFFF).
RECURSIVE IsUtf8(_)
IsUtf8(b) ==
    IF Len(b) = 0 THEN TRUE
    ELSE
        LET x == b[1]
            n == Len(b)
        IN  IF x < 128 THEN IsUtf8(Tail(b))
            ELSE IF x \in 194..223 THEN
                /\ n >= 2
                /\ IsCont(b[2])
                /\ IsUtf8(SubSeq(b, 3, n))
            ELSE IF x \in 224..239 THEN
                /\ n >= 3
                /\ IF x = 224 THEN b[2] \in 160..191
                   ELSE IF x = 237 THEN b[2] \in 128..159
                   ELSE IsCont(b[2])
                /\ IsCont(b[3])
                /\ IsUtf8(SubSeq(b, 4, n))
            ELSE IF x \in 240..244 THEN
                /\ n >= 4
                /\ IF x = 240 THEN b[2] \in 144..191
                   ELSE IF x = 244 THEN b[2] \in 128..143
                   ELSE IsCont(b[2])
                /\ IsCont(b[3])
                /\ IsCont(b[4])
                /\ IsUtf8(SubSeq(b, 5, n))
            ELSE FALSE

\* The cursor decoding of list: base64, then UTF-8; any failure is BadRequest.
DecodeCursor(cursor) ==
    IF ~cursor.some THEN Ok(None)
    ELSE
        LET cursor_bytes == Base64Decode(cursor.v)
        IN  IF ~cursor_bytes.ok THEN Err("BadRequest")
            ELSE IF ~IsUtf8(cursor_bytes.val) THEN Err("BadRequest")
            ELSE Ok(Some(cursor_bytes.val))

-----------------------------------------------------------------------------
(* The registry: ObjectValue and the operations of ObjectStores, each as a *)
(* function of the registry contents `reg` (store name -> key -> value)    *)
(* and of `p`, whether the lock is poisoned.  An operation that can change *)
(* the registry yields [res |-> its result, stores |-> the registry after].*)

\* KvInsertMode.
Modes == {"Overwrite", "Add", "Append", "Prepend"}

\* ObjectStores::new: no store at all.
EmptyRegistry == [s \in {} |-> [k \in {} |-> None]]

\* BTreeMap::new() for one store.
EmptyStore == [k \in {} |-> None]

\* BTreeMap::insert(k, v) on the map m.
MapInsert(m, k, v) == [x \in (DOMAIN m) \cup {k} |-> IF x = k THEN v ELSE m[x]]

\* BTreeMap::remove(k) on the map m.
MapRemove(m, k) == [x \in (DOMAIN m) \ {k} |-> m[x]]

\* store_exists.
store_exists(reg, p, obj_store_key) ==
    IF p THEN Err("PoisonedLock")
    ELSE Ok(obj_store_key \in DOMAIN reg)

\* lookup: the value under the key, or MissingObject when the store or the
\* key is absent.
lookup(reg, p, obj_store_key, obj_key) ==
    IF p THEN Err("PoisonedLock")
    ELSE IF obj_store_key \in DOMAIN reg /\ obj_key \in DOMAIN reg[obj_store_key]
         THEN Ok(reg[obj_store_key][obj_key])
         ELSE Err("MissingObject")

\* insert_empty_store as insert(name, BTreeMap::new()) would do it: an
\* existing store is replaced by an empty one.
insert_empty_store_Resets(reg, p, obj_store_key) ==
    IF p THEN [res |-> Err("PoisonedLock"), stores |-> reg]
    ELSE [res |-> Ok(Unit),
          stores |-> MapInsert(reg, obj_store_key, EmptyStore)]

\* insert_empty_store: entry().and_modify(|_| {}).or_insert_with(BTreeMap::new).
insert_empty_store(reg, p, obj_store_key) ==
    IF p THEN [res |-> Err("PoisonedLock"), stores |-> reg]
    ELSE [res |-> Ok(Unit),
          stores |-> IF obj_store_key \in DOMAIN reg THEN reg
                     ELSE MapInsert(reg, obj_store_key, EmptyStore)]

\* InsertOutObj with the operands of Append and Prepend exchanged.
InsertOutObj_Swapped(existing, obj, mode, generation) ==
    IF generation.some /\ existing.ok /\ existing.val.generation # generation.v
    THEN Err("PreconditionFailed")
    ELSE IF mode = "Overwrite" THEN Ok(obj)
    ELSE IF mode = "Add" THEN
        IF existing.ok THEN Err("PreconditionFailed") ELSE Ok(obj)
    ELSE IF mode = "Append" THEN
        IF existing.ok THEN Ok(obj \o existing.val.body)
        ELSE IF existing.err = "MissingObject" THEN Ok(obj)
        ELSE Err("InternalError")
    ELSE
        IF existing.ok THEN Ok(existing.val.body \o obj)
        ELSE IF existing.err = "MissingObject" THEN Ok(obj)
        ELSE Err("InternalError")

\* InsertOutObj where Add replaces an existing value instead of failing.
InsertOutObj_AddReplaces(existing, obj, mode, generation) ==
    IF generation.some /\ existing.ok /\ existing.val.generation # generation.v
    THEN Err("PreconditionFailed")
    ELSE IF mode \in {"Overwrite", "Add"} THEN Ok(obj)
    ELSE IF mode = "Append" THEN
        IF existing.ok THEN Ok(existing.val.body \o obj)
        ELSE IF existing.err = "MissingObject" THEN Ok(obj)
        ELSE Err("InternalError")
    ELSE
        IF existing.ok THEN Ok(obj \o existing.val.body)
        ELSE IF existing.err = "MissingObject" THEN Ok(obj)
        ELSE Err("InternalError")

\* InsertOutObj where Overwrite is decided before the generation check.
InsertOutObj_ModeFirst(existing, obj, mode, generation) ==
    IF mode = "Overwrite" THEN Ok(obj)
    ELSE IF generation.some /\ existing.ok /\ existing.val.generation # generation.v
    THEN Err("PreconditionFailed")
    ELSE IF mode = "Add" THEN
        IF existing.ok THEN Err("PreconditionFailed") ELSE Ok(obj)
    ELSE IF mode = "Append" THEN
        IF existing.ok THEN Ok(existing.val.body \o obj)
        ELSE IF existing.err = "MissingObject" THEN Ok(obj)
        ELSE Err("InternalError")
    ELSE
        IF existing.ok THEN Ok(obj \o existing.val.body)
        ELSE IF existing.err = "MissingObject" THEN Ok(obj)
        ELSE Err("InternalError")

\* insert, lines 82-127: the generation check, then the mode; Ok(out_obj) is
\* the body to write, Err(e) an early return.
InsertOutObj(existing, obj, mode, generation) ==
    IF generation.some /\ existing.ok /\ existing.val.generation # generation.v
    THEN Err("PreconditionFailed")
    ELSE IF mode = "Overwrite" THEN Ok(obj)
    ELSE IF mode = "Add" THEN
        IF existing.ok THEN Err("PreconditionFailed") ELSE Ok(obj)
    ELSE IF mode = "Append" THEN
        IF existing.ok THEN Ok(existing.val.body \o obj)
        ELSE IF existing.err = "MissingObject" THEN Ok(obj)
        ELSE Err("InternalError")
    ELSE \* Prepend
        IF existing.ok THEN Ok(obj \o existing.val.body)
        ELSE IF existing.err = "MissingObject" THEN Ok(obj)
        ELSE Err("InternalError")

\* NewObjectValue without the replacement of the stamp 1337.
NewObjectValue_KeepsStamp(out_obj, metadata, now) ==
    [body |-> out_obj,
     metadata |-> IF metadata.some THEN metadata.v ELSE <<>>,
     metadata_len |-> IF metadata.some THEN Len(metadata.v) ELSE 0,
     generation |-> now]

\* NewObjectValue that sets metadata_len and leaves the metadata empty.
NewObjectValue_NoMetadata(out_obj, metadata, now) ==
    [body |-> out_obj,
     metadata |-> <<>>,
     metadata_len |-> IF metadata.some THEN Len(metadata.v) ELSE 0,
     generation |-> IF now = 1337 THEN 1338 ELSE now]

\* insert, lines 129-147: the value written.  `now` is the clock reading
\* as_nanos() as u32; 1337 is replaced by 1338.
NewObjectValue(out_obj, metadata, now) ==
    [body |-> out_obj,
     metadata |-> IF metadata.some THEN metadata.v ELSE <<>>,
     metadata_len |-> IF metadata.some THEN Len(metadata.v) ELSE 0,
     generation |-> IF now = 1337 THEN 1338 ELSE now]

\* WriteObject as or_insert would do it: a key already present keeps its value.
WriteObject_KeepsPresent(reg, obj_store_key, obj_key, obj_val) ==
    IF obj_store_key \in DOMAIN reg
    THEN IF obj_key \in DOMAIN reg[obj_store_key] THEN reg
         ELSE [reg EXCEPT ![obj_store_key] = MapInsert(@, obj_key, obj_val)]
    ELSE MapInsert(reg, obj_store_key, MapInsert(EmptyStore, obj_key, obj_val))

\* insert, lines 149-160: entry(store).and_modify(insert).or_insert_with(new
\* store holding the key).
WriteObject(reg, obj_store_key, obj_key, obj_val) ==
    IF obj_store_key \in DOMAIN reg
    THEN [reg EXCEPT ![obj_store_key] = MapInsert(@, obj_key, obj_val)]
    ELSE MapInsert(reg, obj_store_key, MapInsert(EmptyStore, obj_key, obj_val))

\* insert when no other thread runs between its two critical sections: the
\* serial reference of SerialOutcome.
insert(reg, p, obj_store_key, obj_key, obj, mode, generation, metadata, now) ==
    LET existing == lookup(reg, p, obj_store_key, obj_key)
        out_obj == InsertOutObj(existing, obj, mode, generation)
    IN  IF ~out_obj.ok THEN [res |-> out_obj, stores |-> reg]
        ELSE IF p THEN [res |-> Err("InternalError"), stores |-> reg]
        ELSE [res |-> Ok(Unit),
              stores |-> WriteObject(reg, obj_store_key, obj_key,
                                     NewObjectValue(out_obj.val, metadata, now))]

\* delete that removes a store together with its last key.
delete_DropsEmptyStore(reg, p, obj_store_key, obj_key) ==
    IF p THEN [res |-> Err("InternalError"), stores |-> reg]
    ELSE IF obj_store_key \notin DOMAIN reg THEN [res |-> Ok(Unit), stores |-> reg]
    ELSE IF obj_key \in DOMAIN reg[obj_store_key]
         THEN [res |-> Ok(Unit),
               stores |-> IF DOMAIN reg[obj_store_key] = {obj_key}
                          THEN MapRemove(reg, obj_store_key)
                          ELSE [reg EXCEPT ![obj_store_key] = MapRemove(@, obj_key)]]
         ELSE [res |-> Err("NotFound"), stores |-> reg]

\* delete that recovers the guard of a poisoned lock and proceeds.
delete_Recovers(reg, p, obj_store_key, obj_key) ==
    IF obj_store_key \notin DOMAIN reg THEN [res |-> Ok(Unit), stores |-> reg]
    ELSE IF obj_key \in DOMAIN reg[obj_store_key]
         THEN [res |-> Ok(Unit),
               stores |-> [reg EXCEPT ![obj_store_key] = MapRemove(@, obj_key)]]
         ELSE [res |-> Err("NotFound"), stores |-> reg]

\* delete: entry(store).and_modify(remove the key, or NotFound when the
\* store lacks it); a vacant entry leaves res at Ok(()).
delete(reg, p, obj_store_key, obj_key) ==
    IF p THEN [res |-> Err("InternalError"), stores |-> reg]
    ELSE IF obj_store_key \notin DOMAIN reg THEN [res |-> Ok(Unit), stores |-> reg]
    ELSE IF obj_key \in DOMAIN reg[obj_store_key]
         THEN [res |-> Ok(Unit),
               stores |-> [reg EXCEPT ![obj_store_key] = MapRemove(@, obj_key)]]
         ELSE [res |-> Err("NotFound"), stores |-> reg]

\* ListPage with next_cursor built from the first key of the page.
ListPage_FirstKey(full, prefix, limit) ==
    LET old_len == Len(full)
        lst == Truncate(full, limit)
        new_len == Len(lst)
    IN  IF old_len # new_len
        THEN IF new_len = 0 THEN Panic
             ELSE Ok([data |-> lst,
                      meta |-> [limit |-> limit, prefix |-> prefix,
                                next_cursor |-> Some(Base64Encode(lst[1]))]])
        ELSE Ok([data |-> lst,
                 meta |-> [limit |-> limit, prefix |-> prefix, next_cursor |-> None]])

\* list, lines 236-243: truncation and next_cursor.  With old_len # new_len
\* and new_len = 0 the index new_len - 1 is out of range: the call panics.
ListPage(full, prefix, limit) ==
    LET old_len == Len(full)
        lst == Truncate(full, limit)
        new_len == Len(lst)
    IN  IF old_len # new_len
        THEN IF new_len = 0 THEN Panic
             ELSE Ok([data |-> lst,
                      meta |-> [limit |-> limit, prefix |-> prefix,
                                next_cursor |-> Some(Base64Encode(lst[new_len]))]])
        ELSE Ok([data |-> lst,
                 meta |-> [limit |-> limit, prefix |-> prefix, next_cursor |-> None]])

\* list: the keys of the store in order, those above the cursor, those with
\* the prefix, cut to limit.  The JSON text is kept as the record it encodes.
list(reg, p, obj_store_key, cursor, prefix, limit) ==
    IF p THEN Err("InternalError")
    ELSE IF obj_store_key \notin DOMAIN reg THEN Err("InternalError")
    ELSE
        LET c == DecodeCursor(cursor)
        IN  IF ~c.ok THEN c
            ELSE
                LET AfterCursor(k) == IF c.val.some THEN StrLess(c.val.v, k) ELSE TRUE
                    HasPrefix(k) == IF prefix.some THEN StartsWith(k, prefix.v) ELSE TRUE
                    full == SelectSeq(SelectSeq(SortedSeq(DOMAIN reg[obj_store_key]),
                                                AfterCursor), HasPrefix)
                IN  ListPage(full, prefix, limit)

-----------------------------------------------------------------------------
(* Inputs of the calls. *)

StoreNames == {"s", "t"}

\* Valid object keys: "a", "b".
ObjectKeys == {<<97>>, <<98>>}

\* Bodies handed to insert: "1", "2".
BodyInputs == {<<49>>, <<50>>}

\* expected generation: none, one that a stored value can carry, one that
\* none carries.
GenerationInputs == {None, Some(5), Some(1337)}

\* metadata: none, "m".
MetadataInputs == {None, Some(<<109>>)}

\* Readings of the clock, as u32.
NowInputs == {5, 1337}

\* Cursors handed to list by Spec: none, the encoding of "a", and "=".
CursorInputs == {None, Some(Base64Encode(<<97>>)), Some(<<PadChar>>)}

\* Prefixes handed to list by Spec: none, "a".
PrefixInputs == {None, Some(<<97>>)}

\* Limits handed to list.
LimitInputs == 0..MaxLimit

-----------------------------------------------------------------------------
(* Spec: calls on one registry, one after the other.  A call runs as one   *)
(* step and leaves its arguments and result in `last`; the caller then     *)
(* takes the result (Return) and may call again.                           *)

NoCall == [op |-> "none"]

\* The values of last.op of a call that has begun and not yet returned.
InFlightOps ==
    {"insert_lookup",
     "kv_lookup_spawn", "kv_lookup_wait_recv", "kv_list_spawn",
     "kv_list_wait_recv", "host_lookup_spawn", "kv_insert_read",
     "kv_insert_lookup", "kv_insert_spawn", "kv_insert_wait_recv",
     "kv_delete_spawn", "kv_delete_wait_recv"}

\* A session with no store opened, no operation pending and no body.
EmptySession == [stores |-> <<>>, async_items |-> <<>>, bodies |-> <<>>]

\* A resource table without resources.
EmptyTable == <<>>

\* The pager, the threads (with reg0), the session and the resource table
\* are not used by Spec.
PagerIdle == [status |-> "idle"]
ThreadIds == {1, 2}
ThreadIdle == [pc |-> "idle"]

Init ==
    /\ stores = EmptyRegistry
    /\ poisoned = FALSE
    /\ last = NoCall
    /\ pager = PagerIdle
    /\ thr = [t \in ThreadIds |-> ThreadIdle]
    /\ reg0 = stores
    /\ session = EmptySession
    /\ table = EmptyTable

\* Sum of the lengths of the bodies of the store m.
RECURSIVE StoreBytes(_)
StoreBytes(m) ==
    IF DOMAIN m = {} THEN 0
    ELSE LET k == CHOOSE x \in DOMAIN m : TRUE
         IN  Len(m[k].body) + StoreBytes(MapRemove(m, k))

\* Sum of the lengths of all bodies of the registry.
RECURSIVE RegistryBytes(_)
RegistryBytes(reg) ==
    IF DOMAIN reg = {} THEN 0
    ELSE LET s == CHOOSE x \in DOMAIN reg : TRUE
         IN  StoreBytes(reg[s]) + RegistryBytes(MapRemove(reg, s))

StoreExists ==
    /\ last = NoCall
    /\ \E s \in StoreNames :
          last' = [op |-> "store_exists", store |-> s,
                   res |-> store_exists(stores, poisoned, s)]
    /\ UNCHANGED <<stores, poisoned, pager, thr, reg0, session, table>>

Lookup ==
    /\ last = NoCall
    /\ \E s \in StoreNames, k \in ObjectKeys :
          last' = [op |-> "lookup", store |-> s, key |-> k,
                   res |-> lookup(stores, poisoned, s, k)]
    /\ UNCHANGED <<stores, poisoned, pager, thr, reg0, session, table>>

InsertEmptyStore ==
    /\ last = NoCall
    /\ \E s \in StoreNames :
          LET r == insert_empty_store(stores, poisoned, s)
          IN  /\ stores' = r.stores
              /\ last' = [op |-> "insert_empty_store", store |-> s, res |-> r.res]
    /\ UNCHANGED <<poisoned, pager, thr, reg0, session, table>>

\* insert, lines 80-147: the first critical section and the value to write.
\* self.lookup takes the read guard and releases it on return; the
\* generation check and the mode work on the value it returned.  An early
\* return ends the call here; otherwise the call holds obj_val and has yet
\* to take the write guard.
InsertLookup ==
    /\ last = NoCall
    /\ \E s \in StoreNames, k \in ObjectKeys, obj \in BodyInputs, mode \in Modes,
          g \in GenerationInputs, md \in MetadataInputs, now \in NowInputs :
          LET existing == lookup(stores, poisoned, s, k)
              out_obj == InsertOutObj(existing, obj, mode, g)
          IN  IF ~out_obj.ok
              THEN last' = [op |-> "insert", store |-> s, key |-> k, obj |-> obj,
                            mode |-> mode, generation |-> g, metadata |-> md,
                            existed |-> existing.ok, prior |-> existing,
                            res |-> out_obj]
              ELSE LET obj_val == NewObjectValue(out_obj.val, md, now)
                   IN  /\ RegistryBytes(WriteObject(stores, s, k, obj_val)) <= MaxBytes
                       /\ last' = [op |-> "insert_lookup", store |-> s, key |-> k,
                                   obj |-> obj, mode |-> mode, generation |-> g,
                                   metadata |-> md, existed |-> existing.ok,
                                   prior |-> existing, obj_val |-> obj_val]
    /\ UNCHANGED <<stores, poisoned, pager, thr, reg0, session, table>>

\* insert, lines 149-162: the second critical section.  write() fails on a
\* poisoned lock; otherwise obj_val goes into the registry as it is now.
InsertWrite ==
    /\ last # NoCall
    /\ last.op = "insert_lookup"
    /\ stores' = IF poisoned THEN stores
                 ELSE WriteObject(stores, last.store, last.key, last.obj_val)
    /\ last' = [op |-> "insert", store |-> last.store, key |-> last.key,
                obj |-> last.obj, mode |-> last.mode,
                generation |-> last.generation, metadata |-> last.metadata,
                existed |-> last.existed, prior |-> last.prior,
                res |-> IF poisoned THEN Err("InternalError") ELSE Ok(Unit)]
    /\ UNCHANGED <<poisoned, pager, thr, reg0, session, table>>

\* The call of this thread is between the two critical sections of insert.
InsertInFlight == last # NoCall /\ last.op = "insert_lookup"

\* Another thread deletes the key while this thread's insert holds no guard
\* (delete, lines 165-187).
OtherThreadDelete ==
    /\ InsertInFlight
    /\ ~poisoned
    /\ stores' = delete(stores, poisoned, last.store, last.key).stores
    /\ UNCHANGED <<poisoned, last, pager, thr, reg0, session, table>>

\* The body another thread writes.
OtherBodyInputs == {<<50>>}

\* Another thread's insert writes the key while this thread's insert holds
\* no guard (insert, lines 149-160): a value without metadata, stamped 5.
OtherThreadWrite ==
    /\ InsertInFlight
    /\ ~poisoned
    /\ \E obj \in OtherBodyInputs :
          LET md == None
              now == 5
              reg == WriteObject(stores, last.store, last.key,
                                 NewObjectValue(obj, md, now))
          IN  /\ RegistryBytes(reg) <= MaxBytes
              /\ RegistryBytes(WriteObject(reg, last.store, last.key,
                                           last.obj_val)) <= MaxBytes
              /\ stores' = reg
    /\ UNCHANGED <<poisoned, last, pager, thr, reg0, session, table>>

Delete ==
    /\ last = NoCall
    /\ \E s \in StoreNames, k \in ObjectKeys :
          LET r == delete(stores, poisoned, s, k)
          IN  /\ stores' = r.stores
              /\ last' = [op |-> "delete", store |-> s, key |-> k, res |-> r.res]
    /\ UNCHANGED <<poisoned, pager, thr, reg0, session, table>>

\* One call of list with arguments from the given sets.
ListCall(storeSet, cursorSet, prefixSet, limitSet) ==
    /\ last = NoCall
    /\ \E s \in storeSet, c \in cursorSet, pre \in prefixSet, limit \in limitSet :
          last' = [op |-> "list", store |-> s, cursor |-> c, prefix |-> pre,
                   limit |-> limit,
                   res |-> list(stores, poisoned, s, c, pre, limit)]
    /\ UNCHANGED <<stores, poisoned, pager, thr, reg0, session, table>>

List == ListCall(StoreNames, CursorInputs, PrefixInputs, LimitInputs)

\* The caller takes the result of the call.
Return ==
    /\ last # NoCall
    /\ last.op \notin InFlightOps
    /\ last' = NoCall
    /\ UNCHANGED <<stores, poisoned, pager, thr, reg0, session, table>>

Next ==
    \/ StoreExists
    \/ Lookup
    \/ InsertEmptyStore
    \/ InsertLookup
    \/ InsertWrite
    \/ OtherThreadDelete
    \/ OtherThreadWrite
    \/ Delete
    \/ List
    \/ Return

Spec == Init /\ [][Next]_vars

-----------------------------------------------------------------------------
(* Properties of insert, lookup and delete, checked under Spec. *)

LastInsertOk == last.op = "insert" /\ last.res = Ok(Unit)

\* C1: after insert(store, key, B, Overwrite, no expected generation) has
\* returned Ok, lookup(store, key) returns a value whose body is exactly B.
C1_OverwriteRoundTrip ==
    (LastInsertOk /\ last.mode = "Overwrite" /\ ~last.generation.some)
        => LET r == lookup(stores, poisoned, last.store, last.key)
           IN  r.ok /\ r.val.body = last.obj

\* An Overwrite of "2" without expected generation has returned Ok on a key
\* that held a value, in a store that holds the other key too.
C1_Witness ==
    /\ LastInsertOk
    /\ last.mode = "Overwrite"
    /\ ~last.generation.some
    /\ last.existed
    /\ last.obj = <<50>>
    /\ DOMAIN stores[last.store] = ObjectKeys
    /\ stores[last.store][last.key].body = <<50>>

\* C2: on a key whose body is A, Append of B leaves A followed by B and
\* Prepend of B leaves B followed by A; on an absent key both store exactly
\* B.  A is the body the call read from the key (last'.prior).
C2_AppendPrepend ==
    [][(last' # last /\ last'.op = "insert" /\ last'.res = Ok(Unit)
            /\ last'.mode \in {"Append", "Prepend"})
        => LET before == last'.prior
               after == lookup(stores', poisoned', last'.store, last'.key)
           IN  /\ after.ok
               /\ after.val.body =
                    IF ~before.ok THEN last'.obj
                    ELSE IF last'.mode = "Append"
                         THEN before.val.body \o last'.obj
                         ELSE last'.obj \o before.val.body]_vars

\* Append of "2" onto the body "1" has returned Ok and the body is "12".
C2_Witness ==
    /\ LastInsertOk
    /\ last.mode = "Append"
    /\ last.existed
    /\ last.obj = <<50>>
    /\ stores[last.store][last.key].body = <<49, 50>>

\* C3 as the insert algorithm of the Store Registry words it: on a key that
\* holds body A, Append of B writes B followed by A and Prepend of B writes A
\* followed by B.  A is the body the call read from the key.
C3_AsWorded ==
    [][(last' # last /\ last'.op = "insert" /\ last'.res = Ok(Unit)
            /\ last'.existed /\ last'.mode \in {"Append", "Prepend"})
        => stores'[last'.store][last'.key].body =
              IF last'.mode = "Append"
              THEN last'.obj \o last'.prior.val.body
              ELSE last'.prior.val.body \o last'.obj]_vars

\* C3, amended: on a key that holds body A, Append of B writes A followed by
\* B (the prior body, then the new bytes) and Prepend of B writes B followed
\* by A (the new bytes, then the prior body).  A is the body the call read
\* from the key.
C3_PriorBodyOrder ==
    [][(last' # last /\ last'.op = "insert" /\ last'.res = Ok(Unit)
            /\ last'.existed /\ last'.mode \in {"Append", "Prepend"})
        => stores'[last'.store][last'.key].body =
              IF last'.mode = "Append"
              THEN last'.prior.val.body \o last'.obj
              ELSE last'.obj \o last'.prior.val.body]_vars

\* Prepend of "2" onto the body "1" has returned Ok and the body is "21".
C3_Witness ==
    /\ LastInsertOk
    /\ last.mode = "Prepend"
    /\ last.existed
    /\ last.obj = <<50>>
    /\ stores[last.store][last.key].body = <<50, 49>>

\* C4: Add on a key that holds a value returns PreconditionFailed and leaves
\* the registry (body, metadata, generation) as it was; Add on an absent key
\* returns Ok and stores the bytes.  Whether the key holds a value is what
\* the call read from it.
C4_Add ==
    [][(last' # last /\ last'.op = "insert" /\ last'.mode = "Add")
        => IF last'.prior.ok
           THEN /\ last'.res = Err("PreconditionFailed")
                /\ stores' = stores
           ELSE /\ last'.res = Ok(Unit)
                /\ lookup(stores', poisoned', last'.store, last'.key).ok
                /\ stores'[last'.store][last'.key].body = last'.obj]_vars

\* Add without expected generation has failed PreconditionFailed on a key
\* that holds a value with another body.
C4_Witness ==
    /\ last.op = "insert"
    /\ last.mode = "Add"
    /\ ~last.generation.some
    /\ last.res = Err("PreconditionFailed")
    /\ last.existed
    /\ stores[last.store][last.key].body # last.obj

\* C5: in every mode, an expected generation that differs from the generation
\* of the value the key holds makes insert return PreconditionFailed and
\* leaves the registry as it was.  The value the key holds is what the call
\* read from it.
C5_GenerationMismatch ==
    [][(last' # last /\ last'.op = "insert" /\ last'.generation.some
            /\ last'.prior.ok
            /\ last'.prior.val.generation # last'.generation.v)
        => /\ last'.res = Err("PreconditionFailed")
           /\ stores' = stores]_vars

\* An Overwrite expecting generation 5 has failed PreconditionFailed on a key
\* whose value carries generation 1338.
C5_Witness ==
    /\ last.op = "insert"
    /\ last.mode = "Overwrite"
    /\ last.generation = Some(5)
    /\ last.res = Err("PreconditionFailed")
    /\ last.existed
    /\ stores[last.store][last.key].generation = 1338

\* C6: delete of a present key returns Ok and a lookup of the key then fails
\* MissingObject; delete of a key that is absent (also when the store was
\* never created) returns NotFound and leaves the registry as it was.
C6_Delete ==
    [][(last'.op = "delete")
        => IF lookup(stores, poisoned, last'.store, last'.key).ok
           THEN /\ last'.res = Ok(Unit)
                /\ lookup(stores', poisoned', last'.store, last'.key)
                       = Err("MissingObject")
           ELSE /\ last'.res = Err("NotFound")
                /\ stores' = stores]_vars

\* What delete does hold: as C6 when the store exists; Ok and no change when
\* the store was never created.
DeleteOnExistingStore ==
    [][(last'.op = "delete")
        => IF lookup(stores, poisoned, last'.store, last'.key).ok
           THEN /\ last'.res = Ok(Unit)
                /\ lookup(stores', poisoned', last'.store, last'.key)
                       = Err("MissingObject")
           ELSE /\ last'.res = IF last'.store \in DOMAIN stores
                               THEN Err("NotFound") ELSE Ok(Unit)
                /\ stores' = stores]_vars

\* C18: the value written by a successful insert has the supplied metadata
\* and its length as metadata_len, or empty metadata and metadata_len 0 when
\* none is supplied, whatever the prior value's metadata and the mode.
C18_MetadataReplaced ==
    LastInsertOk
        => LET v == stores[last.store][last.key]
           IN  IF last.metadata.some
               THEN /\ v.metadata = last.metadata.v
                    /\ v.metadata_len = Len(last.metadata.v)
               ELSE /\ v.metadata = <<>>
                    /\ v.metadata_len = 0

\* An Append without metadata has returned Ok on a key whose prior value had
\* metadata: the body was extended and the metadata is empty.
C18_Witness ==
    /\ LastInsertOk
    /\ last.mode = "Append"
    /\ ~last.metadata.some
    /\ last.prior.ok
    /\ last.prior.val.metadata_len = 1
    /\ stores[last.store][last.key].body = last.prior.val.body \o last.obj
    /\ stores[last.store][last.key].metadata_len = 0

\* C19: insert_empty_store returns Ok; on a name that exists the registry is
\* unchanged; on a new name the registry gains that name with an empty store
\* and every other store is unchanged.
C19_CreateIdempotent ==
    [][(last = NoCall /\ last'.op = "insert_empty_store")
        => /\ last'.res = Ok(Unit)
           /\ IF last'.store \in DOMAIN stores
              THEN stores' = stores
              ELSE /\ DOMAIN stores' = DOMAIN stores \cup {last'.store}
                   /\ stores'[last'.store] = EmptyStore
                   /\ \A s \in DOMAIN stores : stores'[s] = stores[s]]_vars

\* insert_empty_store has returned on a store that holds a key, with the
\* other store present as well.
C19_Witness ==
    /\ last.op = "insert_empty_store"
    /\ last.res = Ok(Unit)
    /\ DOMAIN stores = StoreNames
    /\ DOMAIN stores[last.store] # {}

\* C23: no value in any store has generation 1337, and an insert expecting
\* generation 1337 on a key that holds a value returns PreconditionFailed.
C23_ReservedStamp ==
    /\ \A s \in DOMAIN stores : \A k \in DOMAIN stores[s] :
          stores[s][k].generation # 1337
    /\ (last.op = "insert" /\ last.generation = Some(1337) /\ last.existed)
          => last.res = Err("PreconditionFailed")

\* An insert expecting generation 1337 has failed PreconditionFailed on a
\* key whose value was written at clock reading 1337 and carries 1338.
C23_Witness ==
    /\ last.op = "insert"
    /\ last.generation = Some(1337)
    /\ last.existed
    /\ last.res = Err("PreconditionFailed")
    /\ stores[last.store][last.key].generation = 1338

\* C25: no step removes a store; a successful insert into a name that is
\* not a store adds that store holding just the inserted key;
\* insert_empty_store adds at most its own name; every other call (lookup,
\* list, delete, store_exists, a failed insert, an insert into a store)
\* leaves the set of stores as it was; and store_exists answers whether the
\* name is in that set.
C25_StoresOnlyGrow ==
    [][/\ DOMAIN stores \subseteq DOMAIN stores'
       /\ (last' # last /\ last' # NoCall)
            => /\ IF /\ last'.op = "insert"
                     /\ last'.res = Ok(Unit)
                     /\ last'.store \notin DOMAIN stores
                  THEN /\ DOMAIN stores' = DOMAIN stores \cup {last'.store}
                       /\ DOMAIN stores'[last'.store] = {last'.key}
                  ELSE IF last'.op = "insert_empty_store"
                  THEN DOMAIN stores' = DOMAIN stores \cup {last'.store}
                  ELSE DOMAIN stores' = DOMAIN stores
               /\ last'.op = "store_exists"
                     => last'.res = Ok(last'.store \in DOMAIN stores)]_vars

\* delete has returned Ok and left its store without keys: the store is
\* still there, next to the other store.
C25_Witness ==
    /\ last.op = "delete"
    /\ last.res = Ok(Unit)
    /\ DOMAIN stores = StoreNames
    /\ DOMAIN stores[last.store] = {}

-----------------------------------------------------------------------------
(* SpecList: list as a function of a fixed registry.  The registry starts  *)
(* with store "s" holding any subset of ListKeys (store "t" does not       *)
(* exist); the steps are single calls of list, and a client that pages     *)
(* through the store by following next_cursor.                             *)

\* "a", "a1", "a2", "b1", "b12".
ListKeys == {<<97>>, <<97, 49>>, <<97, 50>>, <<98, 49>>, <<98, 49, 50>>}

\* Cursors: none; "" and each key, encoded; and tokens that do not decode:
\* "=", "YQ" (no padding), "YR==" (trailing bits), "/w==" (the byte 0xFF).
ListCursors ==
    {None, Some(<<>>)}
        \cup {Some(Base64Encode(k)) : k \in ListKeys}
        \cup {Some(<<PadChar>>), Some(<<89, 81>>), Some(<<89, 82, PadChar, PadChar>>),
              Some(<<47, 119, PadChar, PadChar>>)}

\* Prefixes: none, "", "a", "a1", "b", "c".
ListPrefixes ==
    {None, Some(<<>>), Some(<<97>>), Some(<<97, 49>>), Some(<<98>>), Some(<<99>>)}

\* A registry whose store "s" holds the keys K.
RegistryWithKeys(K) ==
    MapInsert(EmptyRegistry, "s", [k \in K |-> NewObjectValue(<<49>>, None, 5)])

InitList ==
    /\ stores \in {RegistryWithKeys(K) : K \in SUBSET ListKeys}
    /\ poisoned = FALSE
    /\ last = NoCall
    /\ pager = PagerIdle
    /\ thr = [t \in ThreadIds |-> ThreadIdle]
    /\ reg0 = stores
    /\ session = EmptySession
    /\ table = EmptyTable

ListAny ==
    /\ pager = PagerIdle
    /\ ListCall(StoreNames, ListCursors, ListPrefixes, LimitInputs)

\* What a caller that pages through store "s" holds after a page: the items
\* collected so far, the pages fetched, and the cursor the page handed back.
PagerAfter(pg, r) ==
    IF r = Panic THEN [pg EXCEPT !.status = "aborted"]
    ELSE IF ~r.ok THEN [pg EXCEPT !.status = "failed"]
    ELSE [pg EXCEPT !.acc = @ \o r.val.data, !.pages = @ + 1,
            !.cursor = r.val.meta.next_cursor,
            !.status = IF r.val.meta.next_cursor.some THEN "paging" ELSE "done"]

\* list(store "s", no cursor, prefix, limit): the first page of a paging run.
ListFirstPage ==
    /\ pager = PagerIdle
    /\ last = NoCall
    /\ \E pre \in ListPrefixes, limit \in LimitInputs :
          LET r == list(stores, poisoned, "s", None, pre, limit)
          IN  /\ last' = [op |-> "list", store |-> "s", cursor |-> None,
                          prefix |-> pre, limit |-> limit, res |-> r]
              /\ pager' = PagerAfter([status |-> "paging", prefix |-> pre,
                                      limit |-> limit, cursor |-> None,
                                      acc |-> <<>>, pages |-> 0], r)
    /\ UNCHANGED <<stores, poisoned, thr, reg0, session, table>>

\* list(store "s", the cursor of the page before, same prefix and limit).
ListNextPage ==
    /\ pager.status = "paging"
    /\ LET r == list(stores, poisoned, "s", pager.cursor, pager.prefix, pager.limit)
       IN  /\ last' = [op |-> "list", store |-> "s", cursor |-> pager.cursor,
                       prefix |-> pager.prefix, limit |-> pager.limit, res |-> r]
           /\ pager' = PagerAfter(pager, r)
    /\ UNCHANGED <<stores, poisoned, thr, reg0, session, table>>

NextList ==
    \/ ListAny
    \/ ListFirstPage
    \/ ListNextPage

SpecList == InitList /\ [][NextList]_vars

-----------------------------------------------------------------------------
(* Properties of list, checked under SpecList. *)

\* The keys of the set K that start with the prefix, ascending.
MatchingKeys(K, prefix) ==
    SortedSeq({k \in K : prefix.some => StartsWith(k, prefix.v)})

\* The sequence has no element twice.
NoDuplicates(s) == \A i, j \in 1..Len(s) : i # j => s[i] # s[j]

\* The sequence of keys is strictly ascending.
Ascending(s) == \A i \in 1..(Len(s) - 1) : StrLess(s[i], s[i + 1])

\* C8: paging from no cursor along next_cursor ends, and the pages' data
\* together are all keys of the store that match the prefix, ascending, none
\* twice and none left out.
C8_Paging ==
    /\ pager.status \notin {"aborted", "failed"}
    /\ pager.status # "idle" => NoDuplicates(pager.acc)
    /\ pager.status = "paging" => pager.pages <= Cardinality(DOMAIN stores["s"])
    /\ pager.status = "done"
          => pager.acc = MatchingKeys(DOMAIN stores["s"], pager.prefix)

\* What paging does hold: as C8 for every limit of at least 1.
PagingWithPositiveLimit ==
    (pager.status # "idle" /\ pager.limit >= 1) => C8_Paging

\* Paging with limit 1 and prefix "a" is done after three pages.
PagingWitness ==
    /\ pager.status = "done"
    /\ pager.limit = 1
    /\ pager.prefix = Some(<<97>>)
    /\ pager.acc = <<<<97>>, <<97, 49>>, <<97, 50>>>>

\* C9: on an existing store, for every cursor, prefix and limit (0 too), list
\* returns a document or an error, never aborts; the data of a document are
\* at most limit keys, ascending, each above the decoded cursor and starting
\* with the prefix.
C9_ListTotal ==
    (last.op = "list" /\ last.store \in DOMAIN stores)
        => /\ last.res # Panic
           /\ last.res.ok =>
                LET data == last.res.val.data
                    c == DecodeCursor(last.cursor)
                IN  /\ Len(data) <= last.limit
                    /\ Ascending(data)
                    /\ c.ok
                    /\ \A i \in 1..Len(data) :
                          /\ data[i] \in DOMAIN stores[last.store]
                          /\ c.val.some => StrLess(c.val.v, data[i])
                          /\ last.prefix.some => StartsWith(data[i], last.prefix.v)

\* What list does hold: as C9, but for the abort with limit 0.
ListTotalButLimitZero ==
    (last.op = "list" /\ last.res = Panic) \/ C9_ListTotal

\* The keys of the listed store that passed the cursor and prefix filters of
\* the last call of list, ascending.
LastFiltered ==
    LET c == DecodeCursor(last.cursor).val
    IN  SortedSeq({k \in DOMAIN stores[last.store] :
                      /\ c.some => StrLess(c.v, k)
                      /\ last.prefix.some => StartsWith(k, last.prefix.v)})

\* C10: a document carries next_cursor exactly when the cut to limit removed
\* a key that passed the filters; next_cursor is then the encoding of the
\* last key of data, it decodes to that key, and a call of list with it gives
\* the filtered keys strictly above that key.
C10_NextCursor ==
    (last.op = "list" /\ last.res.ok)
        => LET doc == last.res.val
               n == Len(doc.data)
               nc == doc.meta.next_cursor
           IN  /\ nc.some <=> Len(LastFiltered) > last.limit
               /\ nc.some =>
                    /\ n >= 1
                    /\ nc.v = Base64Encode(doc.data[n])
                    /\ DecodeCursor(nc) = Ok(Some(doc.data[n]))
                    /\ LET following == list(stores, poisoned, last.store, nc,
                                             last.prefix, last.limit)
                       IN  /\ following.ok
                           /\ following.val.data =
                                Truncate(SubSeq(LastFiltered, n + 1, Len(LastFiltered)),
                                         last.limit)

\* A page of two keys taken after the cursor of "a" carries a next_cursor.
C10_Witness ==
    /\ last.op = "list"
    /\ last.res.ok
    /\ last.cursor = Some(Base64Encode(<<97>>))
    /\ Len(last.res.val.data) = 2
    /\ last.res.val.meta.next_cursor.some

-----------------------------------------------------------------------------
(* SpecConc: two threads share the registry (ObjectStores is a clone of    *)
(* one Arc<RwLock<..>>) and each makes one call of insert or delete.  A    *)
(* step is what a thread does while it holds the lock: insert takes the    *)
(* read lock inside lookup (line 80), gives it up, and takes the write     *)
(* lock at line 150; delete takes the write lock once.                     *)

\* The registry when the threads start: empty, or "a" holding "1" in "s".
ConcRegistries ==
    {EmptyRegistry,
     WriteObject(EmptyRegistry, "s", <<97>>, NewObjectValue(<<49>>, None, 5))}

ConcStores == {"s"}
ConcKeys == {<<97>>}
ConcGenerations == {None, Some(5)}

InitConc ==
    /\ stores \in ConcRegistries
    /\ poisoned = FALSE
    /\ last = NoCall
    /\ pager = PagerIdle
    /\ thr = [t \in ThreadIds |-> ThreadIdle]
    /\ reg0 = stores
    /\ session = EmptySession
    /\ table = EmptyTable

\* insert, lines 80-147: lookup under the read lock, then the checks and the
\* new value, computed from what lookup returned.
ConcInsertLookup(t) ==
    /\ thr[t].pc = "idle"
    /\ \E s \in ConcStores, k \in ConcKeys, obj \in BodyInputs, mode \in Modes,
          g \in ConcGenerations, now \in NowInputs :
          LET existing == lookup(stores, poisoned, s, k)
              out_obj == InsertOutObj(existing, obj, mode, g)
              call == [op |-> "insert", store |-> s, key |-> k, obj |-> obj,
                       mode |-> mode, generation |-> g, metadata |-> None,
                       now |-> now, existing |-> existing]
          IN  thr' = [thr EXCEPT ![t] =
                        IF out_obj.ok
                        THEN [pc |-> "insert_write", call |-> call,
                              obj_val |-> NewObjectValue(out_obj.val, None, now)]
                        ELSE [pc |-> "done", call |-> call, res |-> out_obj]]
    /\ UNCHANGED <<stores, poisoned, last, pager, reg0, session, table>>

\* insert, lines 149-162: the write under the write lock.
ConcInsertWrite(t) ==
    /\ thr[t].pc = "insert_write"
    /\ IF poisoned
       THEN /\ thr' = [thr EXCEPT ![t] = [pc |-> "done", call |-> thr[t].call,
                                          res |-> Err("InternalError")]]
            /\ UNCHANGED stores
       ELSE /\ stores' = WriteObject(stores, thr[t].call.store, thr[t].call.key,
                                     thr[t].obj_val)
            /\ thr' = [thr EXCEPT ![t] = [pc |-> "done", call |-> thr[t].call,
                                          res |-> Ok(Unit)]]
    /\ UNCHANGED <<poisoned, last, pager, reg0, session, table>>

\* delete: all of it under the write lock.
ConcDelete(t) ==
    /\ thr[t].pc = "idle"
    /\ \E s \in ConcStores, k \in ConcKeys :
          LET r == delete(stores, poisoned, s, k)
          IN  /\ stores' = r.stores
              /\ thr' = [thr EXCEPT ![t] =
                           [pc |-> "done",
                            call |-> [op |-> "delete", store |-> s, key |-> k],
                            res |-> r.res]]
    /\ UNCHANGED <<poisoned, last, pager, reg0, session, table>>

NextConc ==
    \E t \in ThreadIds :
        \/ ConcInsertLookup(t)
        \/ ConcInsertWrite(t)
        \/ ConcDelete(t)

SpecConc == InitConc /\ [][NextConc]_vars

-----------------------------------------------------------------------------
(* Properties of concurrent calls, checked under SpecConc. *)

\* The call of a thread run alone, without interruption, on the registry reg.
RunAlone(reg, call) ==
    IF call.op = "insert"
    THEN insert(reg, FALSE, call.store, call.key, call.obj, call.mode,
                call.generation, call.metadata, call.now)
    ELSE delete(reg, FALSE, call.store, call.key)

\* The results of the two calls and the registry they leave are those of
\* running the call of thread a, then the call of thread b, from reg0.
SerialOutcome(a, b) ==
    LET first == RunAlone(reg0, thr[a].call)
        second == RunAlone(first.stores, thr[b].call)
    IN  /\ thr[a].res = first.res
        /\ thr[b].res = second.res
        /\ stores = second.stores

\* C7: nothing takes effect on the registry between the moment an insert
\* reads the key's value and the moment it writes, so the outcome of
\* concurrent inserts and deletes is that of one of their serial orders.
C7_InsertExcludesOthers ==
    /\ \A t \in ThreadIds :
          thr[t].pc = "insert_write"
              => thr[t].call.existing
                    = lookup(stores, poisoned, thr[t].call.store, thr[t].call.key)
    /\ (\A t \in ThreadIds : thr[t].pc = "done")
          => SerialOutcome(1, 2) \/ SerialOutcome(2, 1)

\* Both threads have finished an insert with mode Add, no expected
\* generation, of the same key, which the registry did not hold at the start.
TwoAddsDone ==
    /\ \A t \in ThreadIds :
          /\ thr[t].pc = "done"
          /\ thr[t].call.op = "insert"
          /\ thr[t].call.mode = "Add"
          /\ ~thr[t].call.generation.some
    /\ thr[1].call.store = thr[2].call.store
    /\ thr[1].call.key = thr[2].call.key
    /\ lookup(reg0, FALSE, thr[1].call.store, thr[1].call.key) = Err("MissingObject")

\* C21: of two concurrent inserts with mode Add of the same absent key,
\* exactly one returns Ok and the other PreconditionFailed, and the body
\* stored is that of the one that returned Ok.
C21_ConcurrentAdd ==
    TwoAddsDone
        => \E w \in ThreadIds :
              /\ thr[w].res = Ok(Unit)
              /\ \A t \in ThreadIds \ {w} : thr[t].res = Err("PreconditionFailed")
              /\ stores[thr[w].call.store][thr[w].call.key].body = thr[w].call.obj

-----------------------------------------------------------------------------
(* ObjectKey::new and is_valid_key.  A KeyValidationError is a record      *)
(* [kind |-> variant], Contains with the character it carries.             *)

\* ".well-known/acme-challenge"
WellKnown ==
    <<46, 119, 101, 108, 108, 45, 107, 110, 111, 119, 110, 47,
      97, 99, 109, 101, 45, 99, 104, 97, 108, 108, 101, 110, 103, 101>>

\* str::contains(char).
ContainsChar(key, c) == \E i \in 1..Len(key) : key[i] = c

KeyError(kind) == Err([kind |-> kind])
KeyContains(c) == Err([kind |-> "Contains", ch |-> c])

\* is_valid_key with the length test len >= 1024.
is_valid_key_Over1023(key) ==
    IF Len(key) < 1 THEN KeyError("EmptyKey")
    ELSE IF Len(key) >= 1024 THEN KeyError("Over1024Bytes")
    ELSE IF StartsWith(key, WellKnown) THEN KeyError("StartsWithWellKnown")
    ELSE IF key = <<46, 46>> THEN KeyError("ContainsDotDot")
    ELSE IF key = <<46>> THEN KeyError("ContainsDot")
    ELSE IF ContainsChar(key, 13) THEN KeyContains(13)
    ELSE IF ContainsChar(key, 10) THEN KeyContains(10)
    ELSE IF ContainsChar(key, 91) THEN KeyContains(91)
    ELSE IF ContainsChar(key, 93) THEN KeyContains(93)
    ELSE IF ContainsChar(key, 42) THEN KeyContains(42)
    ELSE IF ContainsChar(key, 63) THEN KeyContains(63)
    ELSE IF ContainsChar(key, 35) THEN KeyContains(35)
    ELSE Ok(Unit)

\* is_valid_key: the tests in the order of the code; the first that fails
\* gives the error.  13 CR, 10 LF, 91 [, 93 ], 42 *, 63 ?, 35 #, 46 '.'.
is_valid_key(key) ==
    IF Len(key) < 1 THEN KeyError("EmptyKey")
    ELSE IF Len(key) > 1024 THEN KeyError("Over1024Bytes")
    ELSE IF StartsWith(key, WellKnown) THEN KeyError("StartsWithWellKnown")
    ELSE IF key = <<46, 46>> THEN KeyError("ContainsDotDot")
    ELSE IF key = <<46>> THEN KeyError("ContainsDot")
    ELSE IF ContainsChar(key, 13) THEN KeyContains(13)
    ELSE IF ContainsChar(key, 10) THEN KeyContains(10)
    ELSE IF ContainsChar(key, 91) THEN KeyContains(91)
    ELSE IF ContainsChar(key, 93) THEN KeyContains(93)
    ELSE IF ContainsChar(key, 42) THEN KeyContains(42)
    ELSE IF ContainsChar(key, 63) THEN KeyContains(63)
    ELSE IF ContainsChar(key, 35) THEN KeyContains(35)
    ELSE Ok(Unit)

\* ObjectKey::new: the key itself when is_valid_key accepts it.
ObjectKey_new(key) ==
    LET v == is_valid_key(key)
    IN  IF v.ok THEN Ok(key) ELSE v

-----------------------------------------------------------------------------
(* SpecKey: ObjectKey::new on keys from a bounded set. *)

\* Characters of the short keys: '.', 'a', CR, LF, '[', ']', '*', '?', '#'.
KeyChars == {46, 97, 13, 10, 91, 93, 42, 63, 35}

\* All strings over KeyChars of length n.
RECURSIVE KeysOfLen(_)
KeysOfLen(n) ==
    IF n = 0 THEN {<<>>}
    ELSE {Append(k, c) : k \in KeysOfLen(n - 1), c \in KeyChars}

\* n times the character c.
Repeat(c, n) == [i \in 1..n |-> c]

\* Keys at the limits: 1024 and 1025 bytes, with and without a forbidden
\* character or the forbidden prefix; the forbidden prefix itself, extended,
\* and cut short by one character.
LongKeys ==
    {Repeat(97, 1024), Repeat(97, 1025),
     Repeat(97, 1023) \o <<35>>, Repeat(97, 1024) \o <<35>>,
     WellKnown, WellKnown \o <<47, 97>>, WellKnown \o <<93>>,
     SubSeq(WellKnown, 1, Len(WellKnown) - 1),
     <<97>> \o WellKnown,
     WellKnown \o Repeat(97, 1024 - Len(WellKnown)),
     WellKnown \o Repeat(97, 1025 - Len(WellKnown))}

KeyInputs == UNION {KeysOfLen(n) : n \in 0..MaxShortKey} \cup LongKeys

KeyNew ==
    /\ last = NoCall
    /\ \E key \in KeyInputs :
          last' = [op |-> "ObjectKey::new", key |-> key, res |-> ObjectKey_new(key)]
    /\ UNCHANGED <<stores, poisoned, pager, thr, reg0, session, table>>

NextKey ==
    \/ KeyNew

SpecKey == Init /\ [][NextKey]_vars

-----------------------------------------------------------------------------
(* Properties of ObjectKey::new, checked under SpecKey. *)

\* The characters a key must not contain: CR, LF, '[', ']', '*', '?', '#'.
ForbiddenChars == {13, 10, 91, 93, 42, 63, 35}

\* The rules of a key, as the data model states them.
KeyRulesHold(key) ==
    /\ Len(key) \in 1..1024
    /\ \A i \in 1..Len(key) : key[i] \notin ForbiddenChars
    /\ key # <<46>>
    /\ key # <<46, 46>>
    /\ ~(/\ Len(key) >= Len(WellKnown)
         /\ SubSeq(key, 1, Len(WellKnown)) = WellKnown)

\* The key breaks the rule that the error names.
BreaksNamedRule(key, e) ==
    IF e.kind = "EmptyKey" THEN Len(key) = 0
    ELSE IF e.kind = "Over1024Bytes" THEN Len(key) > 1024
    ELSE IF e.kind = "StartsWithWellKnown" THEN
        Len(key) >= Len(WellKnown) /\ SubSeq(key, 1, Len(WellKnown)) = WellKnown
    ELSE IF e.kind = "ContainsDot" THEN key = <<46>>
    ELSE IF e.kind = "ContainsDotDot" THEN key = <<46, 46>>
    ELSE /\ e.kind = "Contains"
         /\ e.ch \in ForbiddenChars
         /\ \E i \in 1..Len(key) : key[i] = e.ch

\* C11: ObjectKey::new succeeds exactly on the keys that keep every rule, and
\* the error of a failed construction names a rule the key breaks.
C11_KeyValidation ==
    (last.op = "ObjectKey::new")
        => /\ last.res.ok <=> KeyRulesHold(last.key)
           /\ last.res.ok => last.res.val = last.key
           /\ ~last.res.ok => BreaksNamedRule(last.key, last.res.err)

\* A key of 1024 bytes ending in '#' was refused for the '#'.
C11_Witness ==
    /\ last.op = "ObjectKey::new"
    /\ Len(last.key) = 1024
    /\ last.res = KeyContains(35)

-----------------------------------------------------------------------------
(* SpecPoison: the calls of Spec, and a writer that fails while it holds   *)
(* the write lock.  No function of the registry fails under the write      *)
(* lock by itself, so the failure is a step of the environment.            *)

\* A thread panics while holding the write guard: std::sync::RwLock marks
\* the lock poisoned, and read() and write() return Err from then on.
Poison ==
    /\ last.op \in {"none"} \cup InFlightOps
    /\ ~poisoned
    /\ poisoned' = TRUE
    /\ UNCHANGED <<stores, last, pager, thr, reg0, session, table>>

NextPoison ==
    \/ StoreExists
    \/ Lookup
    \/ InsertEmptyStore
    \/ InsertLookup
    \/ InsertWrite
    \/ OtherThreadDelete
    \/ OtherThreadWrite
    \/ Delete
    \/ List
    \/ Return
    \/ Poison

SpecPoison == Init /\ [][NextPoison]_vars

\* The error each function returns on a poisoned lock.
PoisonError(op) ==
    IF op \in {"store_exists", "lookup", "insert_empty_store"}
    THEN Err("PoisonedLock")
    ELSE Err("InternalError")

\* C17: from a poisoned registry every step leaves the registry poisoned and
\* its contents unchanged, and every call of store_exists, lookup,
\* insert_empty_store, insert, delete or list returns the poisoned-lock or
\* internal error.
C17_PoisonPermanent ==
    [][poisoned
        => /\ poisoned'
           /\ stores' = stores
           /\ (last' # last /\ last' # NoCall /\ last'.op \notin InFlightOps)
                  => last'.res = PoisonError(last'.op)]_vars

\* On a poisoned registry that holds a value, an Add of another key and no
\* expected generation has returned the internal error.
C17_Witness ==
    /\ poisoned
    /\ last.op = "insert"
    /\ last.mode = "Add"
    /\ ~last.generation.some
    /\ last.res = Err("InternalError")
    /\ last.store \in DOMAIN stores
    /\ DOMAIN stores[last.store] = ObjectKeys \ {last.key}

-----------------------------------------------------------------------------
(* mangle_imports.  The binary is kept as the sequence of payloads that    *)
(* the parser yields for it: the version header, then sections, entries of *)
(* the code section, or a parse error.  The module built is kept as the    *)
(* sequence of its sections.                                               *)

\* "wasi_snapshot_preview1"
Preview1 ==
    <<119, 97, 115, 105, 95, 115, 110, 97, 112, 115, 104, 111, 116, 95,
      112, 114, 101, 118, 105, 101, 119, 49>>

\* The import as mangle_imports writes it, with every import renamed, those
\* of the preview1 namespace too.
MangleImport_RenamesAll(import) ==
    [module |-> Preview1,
     name |-> import.module \o <<35>> \o import.name,
     ty |-> import.ty]

\* Lines 27-34: an import of the preview1 namespace is written as it is; any
\* other goes under preview1 with the name format!("{}#{}", module, name).
MangleImport(import) ==
    IF import.module = Preview1
    THEN [module |-> import.module, name |-> import.name, ty |-> import.ty]
    ELSE [module |-> Preview1,
          name |-> import.module \o <<35>> \o import.name,
          ty |-> import.ty]

\* Lines 17-35: the entries of one section in turn.  An entry the section
\* reader fails on ends the call with the reader's error (line 18), and so
\* does an import whose type has no translation (lines 19-25); nothing of
\* the section is written then.
RECURSIVE MangleSection(_, _)
MangleSection(section, imports) ==
    IF section = <<>> THEN Ok(imports)
    ELSE IF ~Head(section).ok
         THEN Err("import reader error")
    ELSE IF Head(section).ty = "untranslatable"
         THEN Err("Failed to translate type for import")
         ELSE MangleSection(Tail(section), Append(imports, MangleImport(Head(section))))

\* Lines 4-49: the payloads in turn, `module` the sections written so far.
RECURSIVE MangleLoop(_, _)
MangleLoop(payloads, module) ==
    IF payloads = <<>> THEN Ok(module)
    ELSE
        LET payload == Head(payloads)
        IN  IF payload.kind = "Error" THEN Err("parse error")
            ELSE IF payload.kind = "Version" /\ payload.encoding = "Component"
            THEN Err("Mangling only supports core-wasm modules, not components")
            ELSE IF payload.kind = "ImportSection" THEN
                LET imports == MangleSection(payload.imports, <<>>)
                IN  IF ~imports.ok THEN imports
                    ELSE MangleLoop(Tail(payloads),
                                    Append(module, [kind |-> "ImportSection",
                                                    imports |-> imports.val]))
            ELSE IF payload.kind = "Section" THEN
                MangleLoop(Tail(payloads),
                           Append(module, [kind |-> "RawSection", id |-> payload.id,
                                           data |-> payload.data]))
            ELSE MangleLoop(Tail(payloads), module)

mangle_imports(bytes) == MangleLoop(bytes, <<>>)

-----------------------------------------------------------------------------
(* SpecAdapt: mangle_imports on binaries from a bounded set. *)

\* What the section reader yields for an entry.  Imports read (ok): modules
\* preview1 and "env", names "a" and "b", a function type, and one import
\* whose type has no translation.  And an entry the reader fails on (~ok),
\* which has no module, name or type.
ImportInputs ==
    {[ok |-> TRUE, module |-> m, name |-> n, ty |-> "func"] :
        m \in {Preview1, <<101, 110, 118>>}, n \in {<<97>>, <<98>>}}
    \cup {[ok |-> TRUE, module |-> <<101, 110, 118>>, name |-> <<97>>,
           ty |-> "untranslatable"],
          [ok |-> FALSE, module |-> <<>>, name |-> <<>>, ty |-> "unread"]}

\* Import sections of no, one or two imports.
ImportSectionInputs ==
    {<<>>} \cup {<<i>> : i \in ImportInputs}
           \cup {<<i, j>> : i \in ImportInputs, j \in ImportInputs}

\* What the parser yields after the version header: an import section, a
\* type section or a custom section with its bytes, an entry of the code
\* section (as_section gives None for it), or an error.
PayloadInputs ==
    {[kind |-> "ImportSection", imports |-> s] : s \in ImportSectionInputs}
    \cup {[kind |-> "Section", id |-> 1, data |-> <<96>>],
          [kind |-> "Section", id |-> 0, data |-> <<97>>],
          [kind |-> "CodeSectionEntry"],
          [kind |-> "Error"]}

RECURSIVE PayloadSeqs(_)
PayloadSeqs(n) ==
    IF n = 0 THEN {<<>>}
    ELSE PayloadSeqs(n - 1)
         \cup {Append(s, x) : s \in {q \in PayloadSeqs(n - 1) : Len(q) = n - 1},
                              x \in PayloadInputs}

BinaryInputs ==
    {<<[kind |-> "Version", encoding |-> e]>> \o s :
        e \in {"Module", "Component"}, s \in PayloadSeqs(MaxPayloads)}

MangleImports ==
    /\ last = NoCall
    /\ \E bytes \in BinaryInputs :
          last' = [op |-> "mangle_imports", bytes |-> bytes,
                   res |-> mangle_imports(bytes)]
    /\ UNCHANGED <<stores, poisoned, pager, thr, reg0, session, table>>

NextAdapt ==
    \/ MangleImports

SpecAdapt == Init /\ [][NextAdapt]_vars

-----------------------------------------------------------------------------
(* Properties of mangle_imports, checked under SpecAdapt. *)

\* The sections of the input: its payloads that are sections.
IsSection(payload) == payload.kind \in {"ImportSection", "Section"}

\* The import is the input import under the adapter namespace: with its own
\* name when it was there already, else with module, '#' and name joined.
Rebound(out, in) ==
    /\ out.module = Preview1
    /\ out.ty = in.ty
    /\ out.name = IF in.module = Preview1 THEN in.name
                  ELSE in.module \o <<35>> \o in.name

\* C20: mangle_imports fails on a component; when it returns a module, the
\* module has one section for each section of the input, in order: a
\* non-import section with the same id and bytes, an import section with the
\* same number of imports, each the input import at that position bound to
\* wasi_snapshot_preview1, named as before if it was bound there and by the
\* composite of its module and name otherwise.
C20_MangleImports ==
    (last.op = "mangle_imports")
        => /\ last.bytes[1].encoding = "Component" => ~last.res.ok
           /\ last.res.ok =>
                LET in == SelectSeq(last.bytes, IsSection)
                    out == last.res.val
                IN  /\ Len(out) = Len(in)
                    /\ \A j \in 1..Len(in) :
                          IF in[j].kind = "Section"
                          THEN out[j] = [kind |-> "RawSection", id |-> in[j].id,
                                         data |-> in[j].data]
                          ELSE /\ out[j].kind = "ImportSection"
                               /\ Len(out[j].imports) = Len(in[j].imports)
                               /\ \A i \in 1..Len(in[j].imports) :
                                     Rebound(out[j].imports[i], in[j].imports[i])

\* A module with a type section and then an import section of env:a and
\* wasi_snapshot_preview1:a was mangled.
C20_Witness ==
    /\ last.op = "mangle_imports"
    /\ last.res.ok
    /\ Len(last.bytes) = 3
    /\ last.bytes[2] = [kind |-> "Section", id |-> 1, data |-> <<96>>]
    /\ last.bytes[3].kind = "ImportSection"
    /\ Len(last.bytes[3].imports) = 2
    /\ last.bytes[3].imports[1].module = <<101, 110, 118>>
    /\ last.bytes[3].imports[2].module = Preview1
    /\ last.res.val[2].imports[1].name = <<101, 110, 118, 35, 97>>
    /\ last.res.val[2].imports[2].name = <<97>>

\* A component was given to mangle_imports.
C20_ComponentRejected ==
    /\ last.op = "mangle_imports"
    /\ last.bytes[1].encoding = "Component"
    /\ ~last.res.ok

-----------------------------------------------------------------------------
(* The Lookup Result resource.  `table` is the resource table of the       *)
(* component context: the resource with representation rep is entry        *)
(* rep + 1, None once it was deleted.                                      *)

\* ResourceTable::get / get_mut: the resource, or an error when the table
\* has none under rep.
TableGet(tbl, rep) ==
    IF rep + 1 \in 1..Len(tbl) /\ tbl[rep + 1].some
    THEN Ok(tbl[rep + 1].v)
    ELSE Err([kind |-> "ResourceTableError"])

\* body: the body handle of the resource.
HostLookupResult_body(tbl, rep) ==
    LET res == TableGet(tbl, rep)
    IN  IF ~res.ok THEN [res |-> res, table |-> tbl]
        ELSE [res |-> Ok(res.val.body), table |-> tbl]

\* metadata that returns a copy of the bytes and leaves them in the resource.
HostLookupResult_metadata_Clones(tbl, rep, max_len) ==
    LET res == TableGet(tbl, rep)
    IN  IF ~res.ok THEN [res |-> res, table |-> tbl]
        ELSE IF ~res.val.metadata.some THEN [res |-> Ok(None), table |-> tbl]
        ELSE IF Len(res.val.metadata.v) > max_len
             THEN [res |-> Err([kind |-> "BufferLen", len |-> Len(res.val.metadata.v)]),
                   table |-> tbl]
             ELSE [res |-> Ok(res.val.metadata), table |-> tbl]

\* metadata that takes the bytes out of the resource before it compares
\* their length with max_len.
HostLookupResult_metadata_TakesFirst(tbl, rep, max_len) ==
    LET res == TableGet(tbl, rep)
    IN  IF ~res.ok THEN [res |-> res, table |-> tbl]
        ELSE IF ~res.val.metadata.some THEN [res |-> Ok(None), table |-> tbl]
        ELSE IF Len(res.val.metadata.v) > max_len
             THEN [res |-> Err([kind |-> "BufferLen", len |-> Len(res.val.metadata.v)]),
                   table |-> [tbl EXCEPT ![rep + 1] =
                                  Some([res.val EXCEPT !.metadata = None])]]
             ELSE [res |-> Ok(res.val.metadata),
                   table |-> [tbl EXCEPT ![rep + 1] =
                                  Some([res.val EXCEPT !.metadata = None])]]

\* metadata: None when the resource holds no metadata; BufferLen with the
\* length of the metadata when it is longer than max_len; else the bytes,
\* moved out of the resource by Option::take.
HostLookupResult_metadata(tbl, rep, max_len) ==
    LET res == TableGet(tbl, rep)
    IN  IF ~res.ok THEN [res |-> res, table |-> tbl]
        ELSE IF ~res.val.metadata.some THEN [res |-> Ok(None), table |-> tbl]
        ELSE IF Len(res.val.metadata.v) > max_len
             THEN [res |-> Err([kind |-> "BufferLen", len |-> Len(res.val.metadata.v)]),
                   table |-> tbl]
             ELSE [res |-> Ok(res.val.metadata),
                   table |-> [tbl EXCEPT ![rep + 1] =
                                  Some([res.val EXCEPT !.metadata = None])]]

\* generation: the generation of the resource.
HostLookupResult_generation(tbl, rep) ==
    LET res == TableGet(tbl, rep)
    IN  IF ~res.ok THEN [res |-> res, table |-> tbl]
        ELSE [res |-> Ok(res.val.generation), table |-> tbl]

\* drop: ResourceTable::delete(rep).
HostLookupResult_drop(tbl, rep) ==
    LET res == TableGet(tbl, rep)
    IN  IF ~res.ok THEN [res |-> res, table |-> tbl]
        ELSE [res |-> Ok(Unit), table |-> [tbl EXCEPT ![rep + 1] = None]]

-----------------------------------------------------------------------------
(* SpecLookupResult: the accessors called on a table of two Lookup         *)
(* Results.  Resource 0 starts with metadata; resource 1 with or without.  *)

\* Metadata of a Lookup Result: none, empty, "m", "mn".
ResultMetadataInputs == {None, Some(<<>>), Some(<<109>>), Some(<<109, 110>>)}

LookupResults(metadataSet) ==
    {[body |-> b, metadata |-> md, generation |-> g] :
        b \in {1, 2}, md \in metadataSet, g \in {5, 1338}}

\* Representations handed to the accessors: the two resources and one that
\* the table never held.
RepInputs == {0, 1, 2}

InitLookupResult ==
    /\ stores = EmptyRegistry
    /\ poisoned = FALSE
    /\ last = NoCall
    /\ pager = PagerIdle
    /\ thr = [t \in ThreadIds |-> ThreadIdle]
    /\ reg0 = stores
    /\ session = EmptySession
    /\ \E r0 \in LookupResults(ResultMetadataInputs \ {None}),
          r1 \in LookupResults(ResultMetadataInputs) :
          table = <<Some(r0), Some(r1)>>

ResultBody ==
    /\ last = NoCall
    /\ \E rep \in RepInputs :
          LET r == HostLookupResult_body(table, rep)
          IN  /\ table' = r.table
              /\ last' = [op |-> "body", rep |-> rep, res |-> r.res]
    /\ UNCHANGED <<stores, poisoned, pager, thr, reg0, session>>

ResultMetadata ==
    /\ last = NoCall
    /\ \E rep \in RepInputs, max_len \in 0..MaxBufferLen :
          LET r == HostLookupResult_metadata(table, rep, max_len)
          IN  /\ table' = r.table
              /\ last' = [op |-> "metadata", rep |-> rep, max_len |-> max_len,
                          res |-> r.res]
    /\ UNCHANGED <<stores, poisoned, pager, thr, reg0, session>>

ResultGeneration ==
    /\ last = NoCall
    /\ \E rep \in RepInputs :
          LET r == HostLookupResult_generation(table, rep)
          IN  /\ table' = r.table
              /\ last' = [op |-> "generation", rep |-> rep, res |-> r.res]
    /\ UNCHANGED <<stores, poisoned, pager, thr, reg0, session>>

ResultDrop ==
    /\ last = NoCall
    /\ \E rep \in RepInputs :
          LET r == HostLookupResult_drop(table, rep)
          IN  /\ table' = r.table
              /\ last' = [op |-> "drop", rep |-> rep, res |-> r.res]
    /\ UNCHANGED <<stores, poisoned, pager, thr, reg0, session>>

NextLookupResult ==
    \/ ResultBody
    \/ ResultMetadata
    \/ ResultGeneration
    \/ ResultDrop
    \/ Return

SpecLookupResult == InitLookupResult /\ [][NextLookupResult]_vars

-----------------------------------------------------------------------------
(* Properties of the Lookup Result, checked under SpecLookupResult. *)

\* C15: a metadata call that returns bytes leaves the result without
\* metadata; a result without metadata answers None to a metadata call and
\* never has metadata again; body and generation return the fields of the
\* result, which no call changes while the result is in the table.
C15_MetadataOnce ==
    [][/\ \A rep \in RepInputs :
            LET a == TableGet(table, rep)
                b == TableGet(table', rep)
            IN  (a.ok /\ b.ok)
                    => /\ b.val.body = a.val.body
                       /\ b.val.generation = a.val.generation
                       /\ ~a.val.metadata.some => ~b.val.metadata.some
       /\ (last = NoCall /\ last' # NoCall /\ TableGet(table, last'.rep).ok)
            => LET a == TableGet(table, last'.rep).val
               IN  /\ last'.op = "body" => last'.res = Ok(a.body)
                   /\ last'.op = "generation" => last'.res = Ok(a.generation)
                   /\ (last'.op = "metadata" /\ ~a.metadata.some)
                          => last'.res = Ok(None)
                   /\ (last'.op = "metadata" /\ last'.res.ok /\ last'.res.val.some)
                          => ~TableGet(table', last'.rep).val.metadata.some]_vars

\* A metadata call on resource 0, which started with metadata, has returned
\* None: the metadata was read before.
C15_Witness ==
    /\ last.op = "metadata"
    /\ last.rep = 0
    /\ last.res = Ok(None)
    /\ TableGet(table, 0).ok

\* C16: a metadata call with max_len below the length of the metadata held
\* fails with BufferLen carrying that length and leaves the table as it was;
\* with max_len at least the length it returns the whole metadata.
C16_BufferLen ==
    [][(/\ last = NoCall
        /\ last'.op = "metadata"
        /\ TableGet(table, last'.rep).ok
        /\ TableGet(table, last'.rep).val.metadata.some)
        => LET md == TableGet(table, last'.rep).val.metadata.v
           IN  IF last'.max_len < Len(md)
               THEN /\ last'.res = Err([kind |-> "BufferLen", len |-> Len(md)])
                    /\ table' = table
               ELSE last'.res = Ok(Some(md))]_vars

\* A metadata call with max_len 1 on a result holding "mn" has failed with
\* BufferLen(2), and the result still holds "mn".
C16_Witness ==
    /\ last.op = "metadata"
    /\ last.max_len = 1
    /\ last.res = Err([kind |-> "BufferLen", len |-> 2])
    /\ TableGet(table, last.rep).ok
    /\ TableGet(table, last.rep).val.metadata = Some(<<109, 110>>)

-----------------------------------------------------------------------------
(* The session's handle tables.  A handle h names entry h + 1 of its       *)
(* table; an entry is None once its resource was taken.  Handles are       *)
(* given out in sequence and never again.                                  *)

\* Errors of the facade are records; an error of the registry is wrapped.
FacadeError(kind) == Err([kind |-> kind])
RegistryError(e) == Err([kind |-> "ObjectStoreError", err |-> e])
FacadePanic == Err([kind |-> "panic"])

\* The entry of a table under handle h, None when there is none.
TableEntry(tbl, h) ==
    IF h + 1 \in 1..Len(tbl) THEN tbl[h + 1] ELSE None

\* Session::get_obj_store_key: the name of the store opened under the handle.
get_obj_store_key(sess, h) == TableEntry(sess.stores, h)

\* Session::insert_pending_kv_lookup / _insert / _delete: the task gets the
\* next handle.
insert_pending(sess, kind, result) ==
    [handle |-> Len(sess.async_items),
     session |-> [sess EXCEPT !.async_items =
                      Append(@, Some([kind |-> kind, result |-> result]))]]

\* Session::take_pending_kv_lookup / _insert / _delete: the task under the
\* handle is taken out of the table; an error when the handle is unknown,
\* was taken before, or names a task of another kind.
take_pending(sess, kind, h) ==
    LET e == TableEntry(sess.async_items, h)
    IN  IF e.some /\ e.v.kind = kind
        THEN [res |-> Ok(e.v.result),
              session |-> [sess EXCEPT !.async_items[h + 1] = None]]
        ELSE [res |-> FacadeError("InvalidHandle"), session |-> sess]

\* Session::take_body: the body under the handle is taken out of the table.
take_body(sess, h) ==
    LET e == TableEntry(sess.bodies, h)
    IN  IF e.some
        THEN [res |-> Ok(e.v), session |-> [sess EXCEPT !.bodies[h + 1] = None]]
        ELSE [res |-> FacadeError("InvalidBodyHandle"), session |-> sess]

\* Session::insert_body: the body gets the next body handle.
insert_body(sess, body) ==
    [handle |-> Len(sess.bodies),
     session |-> [sess EXCEPT !.bodies = Append(@, Some(body))]]

\* Session::obj_store_handle / kv_store_handle: the name gets the next store
\* handle.
obj_store_handle(sess, name) ==
    [handle |-> Len(sess.stores),
     session |-> [sess EXCEPT !.stores = Append(@, Some(name))]]

\* Session::obj_lookup and obj_delete: the call on the registry.
obj_lookup(reg, p, store, key) == lookup(reg, p, store, key)
obj_delete(reg, p, store, key) == delete(reg, p, store, key)

\* Session::obj_insert takes store, key and bytes: an Overwrite without
\* expected generation or metadata.  Its call of insert runs in two critical
\* sections: obj_insert_value is the first (insert, lines 80-147), Ok(the
\* value to write) or the error of an early return.
obj_insert_value(reg, p, store, key, bytes, now) ==
    LET existing == lookup(reg, p, store, key)
        out_obj == InsertOutObj(existing, bytes, "Overwrite", None)
    IN  IF ~out_obj.ok THEN out_obj
        ELSE Ok(NewObjectValue(out_obj.val, None, now))

\* obj_insert whose second critical section is put off: the registry is left
\* as it is and the call reports Ok.
obj_insert_write_Deferred(reg, p, store, key, obj_val) ==
    [res |-> Ok(Unit), stores |-> reg]

\* The second critical section of obj_insert (insert, lines 149-162).
obj_insert_write(reg, p, store, key, obj_val) ==
    IF p THEN [res |-> Err("InternalError"), stores |-> reg]
    ELSE [res |-> Ok(Unit), stores |-> WriteObject(reg, store, key, obj_val)]

-----------------------------------------------------------------------------
(* Guest memory and bodies, as the hostcalls use them. *)

\* memory.as_str(ptr)?.ok_or(Error::SharedMemory)?: the string under the
\* pointer; an error when the pointer faults or names shared memory.
as_str(ptr) ==
    IF ptr.mem = "fault" THEN FacadeError("GuestError")
    ELSE IF ptr.mem = "shared" THEN FacadeError("SharedMemory")
    ELSE Ok(ptr.str)

\* memory.write(out, value)?: an error when the pointer faults.
memory_write(out) ==
    IF out = "fault" THEN FacadeError("GuestError") ELSE Ok(Unit)

\* ObjectKey::new(memory.as_str(key)?.ok_or(Error::SharedMemory)?.to_string())?
ReadKey(key) ==
    LET s == as_str(key)
    IN  IF ~s.ok THEN s ELSE ObjectKey_new(s.val)

\* A body whose bytes can be read, and one whose read fails.
Body(bytes) == [bytes |-> bytes, broken |-> FALSE]
BrokenBody == [bytes |-> <<>>, broken |-> TRUE]

\* Body::read_into_vec
read_into_vec(body) ==
    IF body.broken THEN FacadeError("BodyReadError") ELSE Ok(body.bytes)

\* String::from_utf8 on the names and keys of the component interface.
from_utf8(bytes) ==
    IF IsUtf8(bytes) THEN Ok(bytes) ELSE FacadeError("Utf8Error")

\* The store name spelled by the bytes: "s" for <<115>>, "t" for <<116>>.
StoreNameOf(bytes) ==
    IF bytes = <<115>> THEN "s" ELSE IF bytes = <<116>> THEN "t" ELSE "?"

\* Error::ObjectStoreError(ObjectStoreError::UnknownObjectStore(name))
UnknownObjectStore(name) ==
    Err([kind |-> "ObjectStoreError", unknown_store |-> name])

-----------------------------------------------------------------------------
(* The hostcalls of FastlyKvStore for Session, cut where the code awaits    *)
(* or leaves the lock of the registry: between two parts of a call other   *)
(* sessions use the registry.  A begin call runs the registry operation    *)
(* itself and spawns a task that is already complete.                      *)

\* open: the name, store_exists, the handle.
FastlyKvStore_open(sess, reg, p, name) ==
    LET n == as_str(name)
    IN  IF ~n.ok THEN [res |-> n, session |-> sess]
        ELSE LET e == store_exists(reg, p, n.val)
             IN  IF ~e.ok THEN [res |-> RegistryError(e.err), session |-> sess]
                 ELSE IF e.val
                 THEN LET h == obj_store_handle(sess, n.val)
                      IN  [res |-> Ok(h.handle), session |-> h.session]
                 ELSE [res |-> UnknownObjectStore(n.val), session |-> sess]

\* Host::open of the component interface: the name from its bytes,
\* store_exists, the handle.
Host_open(sess, reg, p, name) ==
    LET n == from_utf8(name)
    IN  IF ~n.ok THEN [res |-> n, session |-> sess]
        ELSE LET e == store_exists(reg, p, StoreNameOf(n.val))
             IN  IF ~e.ok THEN [res |-> RegistryError(e.err), session |-> sess]
                 ELSE IF e.val
                 THEN LET h == obj_store_handle(sess, StoreNameOf(n.val))
                      IN  [res |-> Ok(Some(h.handle)), session |-> h.session]
                 ELSE [res |-> UnknownObjectStore(StoreNameOf(n.val)),
                       session |-> sess]

\* lookup (and list), lines 49-52: the store of the handle (unwrap), the
\* key, the lookup on the registry.  Ok(the result of the lookup) when the
\* call goes on to spawn its task, else the error it returns.
FastlyKvStore_lookup(sess, reg, p, store, key) ==
    LET s == get_obj_store_key(sess, store)
        k == ReadKey(key)
    IN  IF ~s.some THEN FacadePanic
        ELSE IF ~k.ok THEN k
        ELSE Ok(obj_lookup(reg, p, s.v, k.val))

\* Host::lookup, lines 79-82: the store of the handle (unwrap), the key from
\* its bytes, ObjectKey::new, the lookup on the registry.
Host_lookup(sess, reg, p, store, key) ==
    LET s == get_obj_store_key(sess, store)
        u == from_utf8(key)
    IN  IF ~s.some THEN FacadePanic
        ELSE IF ~u.ok THEN u
        ELSE IF ~ObjectKey_new(u.val).ok THEN ObjectKey_new(u.val)
        ELSE Ok(obj_lookup(reg, p, s.v, ObjectKey_new(u.val).val))

\* The end of a begin call (lines 53-58, 96-101, 126-131, 156-161): the task
\* goes into the table of the session, then its handle is written out.  The
\* task stays in the table when the write fails.
PendingOut(sess, kind, task, out) ==
    LET ins == insert_pending(sess, kind, task)
        w == memory_write(out)
    IN  [res |-> IF w.ok THEN Ok(ins.handle) ELSE w, session |-> ins.session]

\* lookup_wait that reads the task and leaves it in the table.
WaitTake_Peeks(sess, kind, h) ==
    [res |-> take_pending(sess, kind, h).res, session |-> sess]

\* The start of a wait call (lines 67-70, 109-112, 139-142, 170-173): the
\* task is taken out of the table.
WaitTake(sess, kind, h) == take_pending(sess, kind, h)

\* lookup_wait that returns MissingObject as an error.
FastlyKvStore_lookup_wait_HardMissing(sess, pending_obj, out) ==
    IF pending_obj.ok THEN
        LET b == insert_body(sess, Body(pending_obj.val.body))
            w == memory_write(out)
        IN  [res |-> IF w.ok THEN Ok(Some(b.handle)) ELSE w, session |-> b.session]
    ELSE [res |-> RegistryError(pending_obj.err), session |-> sess]

\* lookup_wait (and list_wait), lines 73-81: a value found becomes a new
\* body, whose handle is written out; MissingObject is Ok with nothing
\* written; any other error is the error of the call.
FastlyKvStore_lookup_wait(sess, pending_obj, out) ==
    IF pending_obj.ok THEN
        LET b == insert_body(sess, Body(pending_obj.val.body))
            w == memory_write(out)
        IN  [res |-> IF w.ok THEN Ok(Some(b.handle)) ELSE w, session |-> b.session]
    ELSE IF pending_obj.err = "MissingObject"
         THEN [res |-> Ok(None), session |-> sess]
         ELSE [res |-> RegistryError(pending_obj.err), session |-> sess]

\* insert, lines 92-94 up to the read of the body: the store of the handle
\* (unwrap), the key, the body taken from the session.
FastlyKvStore_insert(sess, store, key, body_handle) ==
    LET s == get_obj_store_key(sess, store)
        k == ReadKey(key)
        b == take_body(sess, body_handle)
    IN  IF ~s.some THEN [res |-> FacadePanic, session |-> sess]
        ELSE IF ~k.ok THEN [res |-> k, session |-> sess]
        ELSE IF ~b.res.ok THEN [res |-> b.res, session |-> sess]
        ELSE [res |-> Ok([store |-> s.v, key |-> k.val, body |-> b.res.val]),
              session |-> b.session]

\* insert_wait and delete_wait, the result once the task was received: the
\* result of the task is the result of the call.
WaitResult(pending) ==
    IF pending.ok THEN Ok(Unit) ELSE RegistryError(pending.err)

\* delete, lines 123-125: the store of the handle (unwrap), the key, the
\* delete on the registry.
FastlyKvStore_delete(sess, reg, p, store, key) ==
    LET s == get_obj_store_key(sess, store)
        k == ReadKey(key)
    IN  IF ~s.some THEN [res |-> FacadePanic, stores |-> reg]
        ELSE IF ~k.ok THEN [res |-> k, stores |-> reg]
        ELSE LET r == obj_delete(reg, p, s.v, k.val)
             IN  [res |-> Ok(r.res), stores |-> r.stores]

-----------------------------------------------------------------------------
(* SpecFacade: the hostcalls of one session, one after the other, on a     *)
(* registry with store "s" holding key "a", which other sessions use too.  *)
(* The session has opened no store and holds two bodies: "2" as body       *)
(* handle 0 and a body whose read fails as body handle 1.                  *)

InitFacade ==
    /\ stores = MapInsert(EmptyRegistry, "s",
                    MapInsert(EmptyStore, <<97>>,
                              NewObjectValue(<<49>>, None, 5)))
    /\ poisoned = FALSE
    /\ last = NoCall
    /\ pager = PagerIdle
    /\ thr = [t \in ThreadIds |-> ThreadIdle]
    /\ reg0 = stores
    /\ session = [stores |-> <<>>, async_items |-> <<>>,
                  bodies |-> <<Some(Body(<<50>>)), Some(BrokenBody)>>]
    /\ table = EmptyTable

\* Names given to open: "s", "t", a pointer that faults and one into shared
\* memory.
NamePtrInputs ==
    {[mem |-> "ok", str |-> "s"], [mem |-> "ok", str |-> "t"],
     [mem |-> "fault", str |-> ""], [mem |-> "shared", str |-> ""]}

\* Names given to Host::open: "s", "t" and bytes that are no UTF-8.
NameBytesInputs == {<<115>>, <<116>>, <<255>>}

\* Store handles given to the begin calls.
StoreHandleInputs == {0, 1}

\* Keys given to the begin calls: "a", "b" and "#".
FacadeKeyInputs == {<<97>>, <<98>>, <<35>>}

\* The clock reading of an insert of the session.
FacadeNowInputs == {5}

\* Key pointers given to the begin calls: those keys, a pointer that faults
\* and one into shared memory.
KeyPtrInputs ==
    {[mem |-> "ok", str |-> k] : k \in FacadeKeyInputs}
    \cup {[mem |-> "fault", str |-> <<>>], [mem |-> "shared", str |-> <<>>]}

\* Keys given to Host::lookup: "a", "#" and bytes that are no UTF-8.
KeyBytesInputs == {<<97>>, <<35>>, <<255>>}

\* Pointers the calls write a handle to.
OutPtrInputs == {"writable", "fault"}

\* Body handles given to insert, and pending handles given to the waits:
\* those the session gave out and the next one.
BodyHandleInputs == 0..Len(session.bodies)
PendingHandleInputs == 0..Len(session.async_items)

\* The session begins at most MaxPending operations and opens at most
\* MaxOpen stores.
MayBegin == Len(session.async_items) < MaxPending
MayOpen == Len(session.stores) < MaxOpen

\* open is no async fn: the whole call is one step.
KvOpen ==
    /\ last = NoCall
    /\ MayOpen
    /\ \E name \in NamePtrInputs :
          LET r == FastlyKvStore_open(session, stores, poisoned, name)
          IN  /\ session' = r.session
              /\ last' = [op |-> "kv_open", name |-> name, res |-> r.res]
    /\ UNCHANGED <<stores, poisoned, pager, thr, reg0, table>>

\* Host::open awaits nothing.
HostOpen ==
    /\ last = NoCall
    /\ MayOpen
    /\ \E name \in NameBytesInputs :
          LET r == Host_open(session, stores, poisoned, name)
          IN  /\ session' = r.session
              /\ last' = [op |-> "host_open", name |-> name, res |-> r.res]
    /\ UNCHANGED <<stores, poisoned, pager, thr, reg0, table>>

\* A begin call of lookup or list up to its await of the spawned task.
LookupBegin(op, spawnOp) ==
    /\ last = NoCall
    /\ MayBegin
    /\ \E store \in StoreHandleInputs, key \in KeyPtrInputs, out \in OutPtrInputs :
          LET r == FastlyKvStore_lookup(session, stores, poisoned, store, key)
          IN  last' = IF r.ok
                      THEN [op |-> spawnOp, store |-> store, key |-> key,
                            out |-> out, task |-> r.val]
                      ELSE [op |-> op, store |-> store, key |-> key,
                            out |-> out, res |-> r]
    /\ UNCHANGED <<stores, poisoned, pager, thr, reg0, session, table>>

\* The rest of a begin call, after the await.
BeginEnd(op, spawnOp, kind) ==
    /\ last.op = spawnOp
    /\ LET r == PendingOut(session, kind, last.task, last.out)
       IN  /\ session' = r.session
           /\ last' = [op |-> op, store |-> last.store, key |-> last.key,
                       out |-> last.out, res |-> r.res]
    /\ UNCHANGED <<stores, poisoned, pager, thr, reg0, table>>

KvLookup == LookupBegin("kv_lookup", "kv_lookup_spawn")
KvLookupSpawned == BeginEnd("kv_lookup", "kv_lookup_spawn", "lookup")

\* list names `key`, which is none of its parameters: the key it reads is
\* any of the key pointers.  Its task is a pending lookup.
KvList == LookupBegin("kv_list", "kv_list_spawn")
KvListSpawned == BeginEnd("kv_list", "kv_list_spawn", "lookup")

\* Host::lookup up to its await of the spawned task.
HostLookup ==
    /\ last = NoCall
    /\ MayBegin
    /\ \E store \in StoreHandleInputs, key \in KeyBytesInputs :
          LET r == Host_lookup(session, stores, poisoned, store, key)
          IN  last' = IF r.ok
                      THEN [op |-> "host_lookup_spawn", store |-> store,
                            key |-> key, task |-> r.val]
                      ELSE [op |-> "host_lookup", store |-> store, key |-> key,
                            res |-> r]
    /\ UNCHANGED <<stores, poisoned, pager, thr, reg0, session, table>>

\* Host::lookup, lines 83-87: the task goes into the table, its handle is
\* the result.
HostLookupSpawned ==
    /\ last.op = "host_lookup_spawn"
    /\ LET ins == insert_pending(session, "lookup", last.task)
       IN  /\ session' = ins.session
           /\ last' = [op |-> "host_lookup", store |-> last.store,
                       key |-> last.key, res |-> Ok(ins.handle)]
    /\ UNCHANGED <<stores, poisoned, pager, thr, reg0, table>>

\* A wait call up to its await of the task.
WaitBegin(op, recvOp, kind, outSet) ==
    /\ last = NoCall
    /\ \E h \in PendingHandleInputs, out \in outSet :
          LET t == WaitTake(session, kind, h)
          IN  /\ session' = t.session
              /\ last' = IF t.res.ok
                         THEN [op |-> recvOp, handle |-> h, out |-> out,
                               pending |-> t.res.val]
                         ELSE [op |-> op, handle |-> h, out |-> out,
                               res |-> t.res]
    /\ UNCHANGED <<stores, poisoned, pager, thr, reg0, table>>

\* The rest of lookup_wait or list_wait, with the result of the task.
LookupWaitEnd(op, recvOp) ==
    /\ last.op = recvOp
    /\ LET r == FastlyKvStore_lookup_wait(session, last.pending, last.out)
       IN  /\ session' = r.session
           /\ last' = [op |-> op, handle |-> last.handle, out |-> last.out,
                       res |-> r.res]
    /\ UNCHANGED <<stores, poisoned, pager, thr, reg0, table>>

\* The rest of insert_wait or delete_wait, with the result of the task.
WaitEnd(op, recvOp) ==
    /\ last.op = recvOp
    /\ last' = [op |-> op, handle |-> last.handle, out |-> last.out,
                res |-> WaitResult(last.pending)]
    /\ UNCHANGED <<stores, poisoned, pager, thr, reg0, session, table>>

KvLookupWait ==
    WaitBegin("kv_lookup_wait", "kv_lookup_wait_recv", "lookup", OutPtrInputs)
KvLookupWaitReceived == LookupWaitEnd("kv_lookup_wait", "kv_lookup_wait_recv")

KvListWait ==
    WaitBegin("kv_list_wait", "kv_list_wait_recv", "lookup", OutPtrInputs)
KvListWaitReceived == LookupWaitEnd("kv_list_wait", "kv_list_wait_recv")

\* insert up to its await of the read of the body.
KvInsert ==
    /\ last = NoCall
    /\ MayBegin
    /\ \E store \in StoreHandleInputs, key \in KeyPtrInputs,
          bh \in BodyHandleInputs, out \in OutPtrInputs :
          LET r == FastlyKvStore_insert(session, store, key, bh)
          IN  /\ session' = r.session
              /\ last' = IF r.res.ok
                         THEN [op |-> "kv_insert_read", store |-> store,
                               key |-> key, body_handle |-> bh, out |-> out,
                               body |-> r.res.val.body]
                         ELSE [op |-> "kv_insert", store |-> store, key |-> key,
                               body_handle |-> bh, out |-> out, res |-> r.res]
    /\ UNCHANGED <<stores, poisoned, pager, thr, reg0, table>>

\* insert, line 94 after the await and the first critical section of
\* obj_insert (line 95): a body whose read fails ends the call, the body
\* gone from the session.
KvInsertRead ==
    /\ last.op = "kv_insert_read"
    /\ \E now \in FacadeNowInputs :
          LET bytes == read_into_vec(last.body)
              s == get_obj_store_key(session, last.store).v
              k == ReadKey(last.key).val
          IN  IF ~bytes.ok
              THEN last' = [op |-> "kv_insert", store |-> last.store,
                            key |-> last.key, body_handle |-> last.body_handle,
                            out |-> last.out, res |-> bytes]
              ELSE LET v == obj_insert_value(stores, poisoned, s, k, bytes.val, now)
                   IN  last' = IF v.ok
                               THEN [op |-> "kv_insert_lookup", store |-> last.store,
                                     key |-> last.key,
                                     body_handle |-> last.body_handle,
                                     out |-> last.out, bytes |-> bytes.val,
                                     obj_val |-> v.val]
                               ELSE [op |-> "kv_insert_spawn", store |-> last.store,
                                     key |-> last.key,
                                     body_handle |-> last.body_handle,
                                     out |-> last.out, bytes |-> bytes.val,
                                     task |-> v]
    /\ UNCHANGED <<stores, poisoned, pager, thr, reg0, session, table>>

\* The second critical section of obj_insert (line 95), up to the await of
\* the spawned task.
KvInsertWrite ==
    /\ last.op = "kv_insert_lookup"
    /\ LET s == get_obj_store_key(session, last.store).v
           k == ReadKey(last.key).val
           r == obj_insert_write(stores, poisoned, s, k, last.obj_val)
       IN  /\ stores' = r.stores
           /\ last' = [op |-> "kv_insert_spawn", store |-> last.store,
                       key |-> last.key, body_handle |-> last.body_handle,
                       out |-> last.out, bytes |-> last.bytes, task |-> r.res]
    /\ UNCHANGED <<poisoned, pager, thr, reg0, session, table>>

\* insert, lines 96-101.
KvInsertSpawned ==
    /\ last.op = "kv_insert_spawn"
    /\ LET r == PendingOut(session, "insert", last.task, last.out)
       IN  /\ session' = r.session
           /\ last' = [op |-> "kv_insert", store |-> last.store, key |-> last.key,
                       body_handle |-> last.body_handle, out |-> last.out,
                       res |-> r.res]
    /\ UNCHANGED <<stores, poisoned, pager, thr, reg0, table>>

KvInsertWait ==
    WaitBegin("kv_insert_wait", "kv_insert_wait_recv", "insert", {"none"})
KvInsertWaitReceived == WaitEnd("kv_insert_wait", "kv_insert_wait_recv")

\* delete up to its await of the spawned task.
KvDelete ==
    /\ last = NoCall
    /\ MayBegin
    /\ \E store \in StoreHandleInputs, key \in KeyPtrInputs, out \in OutPtrInputs :
          LET r == FastlyKvStore_delete(session, stores, poisoned, store, key)
          IN  /\ stores' = r.stores
              /\ last' = IF r.res.ok
                         THEN [op |-> "kv_delete_spawn", store |-> store,
                               key |-> key, out |-> out, task |-> r.res.val]
                         ELSE [op |-> "kv_delete", store |-> store, key |-> key,
                               out |-> out, res |-> r.res]
    /\ UNCHANGED <<poisoned, pager, thr, reg0, session, table>>

KvDeleteSpawned == BeginEnd("kv_delete", "kv_delete_spawn", "delete")

KvDeleteWait ==
    WaitBegin("kv_delete_wait", "kv_delete_wait_recv", "delete", {"none"})
KvDeleteWaitReceived == WaitEnd("kv_delete_wait", "kv_delete_wait_recv")

\* The body another session writes: "1".
OtherSessionBodyInputs == {<<49>>}

\* Another session's insert writes a key of store "s" while no call of this
\* session holds the lock of the registry (insert, lines 149-160).
OtherSessionInsert ==
    /\ last.op \in {"none"} \cup InFlightOps
    /\ ~poisoned
    /\ \E k \in ObjectKeys, obj \in OtherSessionBodyInputs :
          stores' = WriteObject(stores, "s", k, NewObjectValue(obj, None, 5))
    /\ UNCHANGED <<poisoned, last, pager, thr, reg0, session, table>>

\* Another session's delete removes a key of store "s" (delete, lines
\* 165-187).
OtherSessionDelete ==
    /\ last.op \in {"none"} \cup InFlightOps
    /\ ~poisoned
    /\ \E k \in ObjectKeys :
          /\ k \in DOMAIN stores["s"]
          /\ stores' = delete(stores, poisoned, "s", k).stores
    /\ UNCHANGED <<poisoned, last, pager, thr, reg0, session, table>>

NextFacade ==
    \/ KvOpen
    \/ HostOpen
    \/ KvLookup
    \/ KvLookupSpawned
    \/ KvLookupWait
    \/ KvLookupWaitReceived
    \/ KvList
    \/ KvListSpawned
    \/ KvListWait
    \/ KvListWaitReceived
    \/ HostLookup
    \/ HostLookupSpawned
    \/ KvInsert
    \/ KvInsertRead
    \/ KvInsertWrite
    \/ KvInsertSpawned
    \/ KvInsertWait
    \/ KvInsertWaitReceived
    \/ KvDelete
    \/ KvDeleteSpawned
    \/ KvDeleteWait
    \/ KvDeleteWaitReceived
    \/ OtherSessionInsert
    \/ OtherSessionDelete
    \/ Poison
    \/ Return

SpecFacade == InitFacade /\ [][NextFacade]_vars

-----------------------------------------------------------------------------
(* Properties of the hostcalls, checked under SpecFacade. *)

WaitOps == {"kv_lookup_wait", "kv_insert_wait", "kv_delete_wait", "kv_list_wait"}
WaitRecvOps ==
    {"kv_lookup_wait_recv", "kv_insert_wait_recv", "kv_delete_wait_recv",
     "kv_list_wait_recv"}
BeginOps == {"kv_lookup", "kv_insert", "kv_delete"}
BeginInFlightOps ==
    {"kv_lookup_spawn", "kv_insert_read", "kv_insert_lookup", "kv_insert_spawn",
     "kv_delete_spawn"}
SpawnOps == {"kv_lookup_spawn", "kv_insert_spawn", "kv_delete_spawn"}

\* The kind of task a wait call takes, and the kind a begin call adds.
WaitKind(op) ==
    IF op \in {"kv_insert_wait", "kv_insert_wait_recv"} THEN "insert"
    ELSE IF op \in {"kv_delete_wait", "kv_delete_wait_recv"} THEN "delete"
    ELSE "lookup"
BeginKind(op) ==
    IF op = "kv_insert" THEN "insert"
    ELSE IF op = "kv_delete" THEN "delete"
    ELSE "lookup"

\* C12: a wait call that finds its task under the handle takes it: the
\* handle is left without a task; a handle without a task never gets one
\* again; and a wait call on a handle without a task of its kind returns an
\* error and changes neither the session nor the registry.
C12_HandleConsumed ==
    [][/\ Len(session'.async_items) >= Len(session.async_items)
       /\ \A h \in 0..(Len(session.async_items) - 1) :
             ~TableEntry(session.async_items, h).some
                 => ~TableEntry(session'.async_items, h).some
       /\ (last = NoCall /\ last'.op \in WaitOps \cup WaitRecvOps)
            => LET e == TableEntry(session.async_items, last'.handle)
               IN  IF e.some /\ e.v.kind = WaitKind(last'.op)
                   THEN /\ last'.op \in WaitRecvOps
                        /\ last'.pending = e.v.result
                        /\ ~TableEntry(session'.async_items, last'.handle).some
                   ELSE /\ last'.op \in WaitOps
                        /\ last'.res = FacadeError("InvalidHandle")
                        /\ session' = session
                        /\ stores' = stores]_vars

\* lookup_wait has returned the invalid-handle error for a handle that the
\* session gave out and whose task was taken before.
C12_Witness ==
    /\ last.op = "kv_lookup_wait"
    /\ last.res = FacadeError("InvalidHandle")
    /\ last.handle < Len(session.async_items)
    /\ ~TableEntry(session.async_items, last.handle).some

\* C13: the task of a lookup begun on a sound registry holds MissingObject
\* exactly when the key was absent, and the task of a delete holds NotFound
\* exactly when the key was absent.  lookup_wait, once it has the result of
\* its task, returns Ok with a new body handle for a value (the error of the
\* write when the handle cannot be written out), Ok without a body handle
\* (and no body added) for MissingObject, and the error for any other
\* error; delete_wait returns the error of its task, NotFound included.
C13_MissingKey ==
    [][/\ (last = NoCall /\ last'.op \in {"kv_lookup_spawn", "kv_delete_spawn"}
             /\ ~poisoned)
            => LET s == get_obj_store_key(session, last'.store).v
                   absent == as_str(last'.key).val \notin DOMAIN stores[s]
               IN  IF last'.op = "kv_lookup_spawn"
                   THEN last'.task = Err("MissingObject") <=> absent
                   ELSE last'.task = Err("NotFound") <=> absent
       /\ (last.op = "kv_delete_wait_recv" /\ last'.op = "kv_delete_wait")
            => /\ last'.res = IF last.pending.ok THEN Ok(Unit)
                              ELSE RegistryError(last.pending.err)
               /\ session' = session
       /\ (last.op = "kv_lookup_wait_recv" /\ last'.op = "kv_lookup_wait")
            => LET r == last.pending
               IN  IF r.ok
                   THEN /\ last'.res = IF last.out = "writable"
                                       THEN Ok(Some(Len(session.bodies)))
                                       ELSE FacadeError("GuestError")
                        /\ session'.bodies
                               = Append(session.bodies, Some(Body(r.val.body)))
                   ELSE IF r.err = "MissingObject"
                   THEN /\ last'.res = Ok(None)
                        /\ session' = session
                   ELSE /\ last'.res = RegistryError(r.err)
                        /\ session' = session]_vars

\* delete_wait has returned the NotFound error; the session has no body
\* beyond those it started with, so no wait before gave out a body.
C13_Witness ==
    /\ last.op = "kv_delete_wait"
    /\ last.res = RegistryError("NotFound")
    /\ Len(session.bodies) = 2

\* lookup_wait has returned Ok without a body handle.
C13_SoftNotFound ==
    /\ last.op = "kv_lookup_wait"
    /\ last.res = Ok(None)
    /\ Len(session.bodies) = 2

\* C14: a begin call whose key is read from memory and refused by
\* ObjectKey::new returns at once with the error of ObjectKey::new and
\* changes neither the session (no pending handle, the body of insert still
\* there) nor the registry.
C14_InvalidKey ==
    [][(/\ last = NoCall
        /\ last'.op \in BeginOps \cup BeginInFlightOps
        /\ as_str(last'.key).ok
        /\ ~ObjectKey_new(as_str(last'.key).val).ok)
        => /\ last'.op \in BeginOps
           /\ last'.res = ObjectKey_new(as_str(last'.key).val)
           /\ session' = session
           /\ stores' = stores]_vars

\* What holds of such a call whatever the store handle: it ends at once
\* without a result and changes nothing; and when the store handle is open
\* it returns the error of ObjectKey::new.
C14_InvalidKeyOpenStore ==
    [][(/\ last = NoCall
        /\ last'.op \in BeginOps \cup BeginInFlightOps
        /\ as_str(last'.key).ok
        /\ ~ObjectKey_new(as_str(last'.key).val).ok)
        => /\ last'.op \in BeginOps
           /\ ~last'.res.ok
           /\ session' = session
           /\ stores' = stores
           /\ get_obj_store_key(session, last'.store).some
                 => last'.res = ObjectKey_new(as_str(last'.key).val)]_vars

\* lookup with key "#" on a store handle that was never opened has aborted
\* at the unwrap of line 49.
C14_UnopenedStore ==
    /\ last.op = "kv_lookup"
    /\ last.key = [mem |-> "ok", str |-> <<35>>]
    /\ ~get_obj_store_key(session, last.store).some
    /\ last.res = FacadePanic

\* insert with key "#" and a live body handle has returned the Contains
\* error: the body is still in the session and no operation is pending.
C14_Witness ==
    /\ last.op = "kv_insert"
    /\ last.key = [mem |-> "ok", str |-> <<35>>]
    /\ last.res = KeyContains(35)
    /\ TableEntry(session.bodies, last.body_handle).some
    /\ session.async_items = <<>>

\* C24: the registry operation is carried out by the begin call, before the
\* task is spawned.  lookup: the task holds the result of the lookup on the
\* registry as it was then.  insert: the value to write holds the bytes of
\* the body, and on a sound registry the write puts it under the key and
\* the task holds Ok.  delete: the task holds the result of the delete, and
\* on a sound registry the key is absent after it.  The end of the begin
\* call puts that task under the next handle, and that handle is the one
\* the call returns.  A task is not changed while it is in the table, and
\* no part of a wait call changes the registry.
C24_EagerBegin ==
    [][/\ (last = NoCall /\ last'.op = "kv_lookup_spawn")
            => /\ last'.task
                     = lookup(stores, poisoned,
                              get_obj_store_key(session, last'.store).v,
                              as_str(last'.key).val)
               /\ stores' = stores
       /\ (last.op = "kv_insert_read" /\ last'.op = "kv_insert_lookup")
            => last'.obj_val.body = last.body.bytes
       /\ (last.op = "kv_insert_lookup" /\ last'.op = "kv_insert_spawn"
             /\ ~poisoned)
            => LET after == lookup(stores', poisoned',
                                   get_obj_store_key(session, last.store).v,
                                   as_str(last.key).val)
               IN  /\ last'.task = Ok(Unit)
                   /\ after.ok
                   /\ after.val.body = last.bytes
       /\ (last = NoCall /\ last'.op = "kv_delete_spawn" /\ ~poisoned)
            => LET s == get_obj_store_key(session, last'.store).v
                   k == as_str(last'.key).val
               IN  /\ last'.task = delete(stores, poisoned, s, k).res
                   /\ lookup(stores', poisoned', s, k) = Err("MissingObject")
       /\ (last.op \in SpawnOps /\ last'.op \in BeginOps)
            => /\ stores' = stores
               /\ TableEntry(session'.async_items, Len(session.async_items))
                     = Some([kind |-> BeginKind(last'.op), result |-> last.task])
               /\ last'.res.ok => last'.res.val = Len(session.async_items)
       /\ \A h \in 0..(Len(session.async_items) - 1) :
             TableEntry(session'.async_items, h).some
                 => TableEntry(session'.async_items, h)
                        = TableEntry(session.async_items, h)
       /\ (last'.op # last.op /\ last'.op \in WaitOps \cup WaitRecvOps)
            => stores' = stores]_vars

\* lookup_wait has delivered a body "2" while the insert begun before the
\* lookup is still pending under handle 0: the registry started with "1"
\* and other sessions write "1", so the lookup saw the value of the insert
\* that nobody waited for.
C24_Witness ==
    /\ last.op = "kv_lookup_wait"
    /\ last.res.ok
    /\ last.res.val.some
    /\ TableEntry(session.bodies, last.res.val.v) = Some(Body(<<50>>))
    /\ TableEntry(session.async_items, 0).some
    /\ TableEntry(session.async_items, 0).v.kind = "insert"

-----------------------------------------------------------------------------
(* The conversions between the error types.  An error value is a record    *)
(* of its type, its variant and, for UnknownObjectStore, the store name    *)
(* ("" elsewhere).  A conversion that panics gives ConversionPanic.        *)

ErrorValue(ty, v, arg) == [ty |-> ty, v |-> v, arg |-> arg]

ConversionPanic == ErrorValue("panic", "panic", "")

\* The variants of KvError and of KvStoreError.
KvVariants ==
    {"Uninitialized", "Ok", "BadRequest", "NotFound", "PreconditionFailed",
     "PayloadTooLarge", "InternalError", "TooManyRequests"}

\* From<&KvError> for KvStoreError: variant by variant.
KvStoreError_from_KvError(e) == ErrorValue("KvStoreError", e.v, "")

\* From<&KvStoreError> for KvError: variant by variant.
KvError_from_KvStoreError(e) == ErrorValue("KvError", e.v, "")

\* From<&KvStoreError> for ObjectStoreError: NotFound is MissingObject, any
\* other variant UnknownObjectStore("").
ObjectStoreError_from_KvStoreError(e) ==
    IF e.v = "NotFound" THEN ErrorValue("ObjectStoreError", "MissingObject", "")
    ELSE ErrorValue("ObjectStoreError", "UnknownObjectStore", "")

\* From<&KvStoreError> for FastlyStatus: Uninitialized panics.
FastlyStatus_from_KvStoreError(e) ==
    IF e.v = "Uninitialized" THEN ConversionPanic
    ELSE IF e.v = "Ok" THEN ErrorValue("FastlyStatus", "Ok", "")
    ELSE IF e.v = "NotFound" THEN ErrorValue("FastlyStatus", "None", "")
    ELSE ErrorValue("FastlyStatus", "Inval", "")

\* From<&ObjectStoreError> for FastlyStatus: PoisonedLock panics.
FastlyStatus_from_ObjectStoreError(e) ==
    IF e.v = "MissingObject" THEN ErrorValue("FastlyStatus", "None", "")
    ELSE IF e.v = "PoisonedLock" THEN ConversionPanic
    ELSE ErrorValue("FastlyStatus", "Inval", "")

-----------------------------------------------------------------------------
(* SpecError: an error value crosses boundaries, converted at each; `last` *)
(* holds the value it started as and what each conversion made of it.      *)

ErrorInputs ==
    {ErrorValue("KvError", v, "") : v \in KvVariants}
    \cup {ErrorValue("KvStoreError", v, "") : v \in KvVariants}
    \cup {ErrorValue("ObjectStoreError", "MissingObject", ""),
          ErrorValue("ObjectStoreError", "PoisonedLock", "")}
    \cup {ErrorValue("ObjectStoreError", "UnknownObjectStore", n) : n \in StoreNames}

InitError ==
    /\ stores = EmptyRegistry
    /\ poisoned = FALSE
    /\ \E e \in ErrorInputs : last = [op |-> "error", chain |-> <<e>>]
    /\ pager = PagerIdle
    /\ thr = [t \in ThreadIds |-> ThreadIdle]
    /\ reg0 = stores
    /\ session = EmptySession
    /\ table = EmptyTable

\* The value that the next conversion takes.
CurrentError == last.chain[Len(last.chain)]

\* The value is of type ty and may be converted once more.
MayConvert(ty) ==
    /\ last.op = "error"
    /\ Len(last.chain) <= MaxChain
    /\ CurrentError.ty = ty

KvErrorToKvStoreError ==
    /\ MayConvert("KvError")
    /\ last' = [last EXCEPT !.chain = Append(@, KvStoreError_from_KvError(CurrentError))]
    /\ UNCHANGED <<stores, poisoned, pager, thr, reg0, session, table>>

KvStoreErrorToKvError ==
    /\ MayConvert("KvStoreError")
    /\ last' = [last EXCEPT !.chain = Append(@, KvError_from_KvStoreError(CurrentError))]
    /\ UNCHANGED <<stores, poisoned, pager, thr, reg0, session, table>>

KvStoreErrorToObjectStoreError ==
    /\ MayConvert("KvStoreError")
    /\ last' = [last EXCEPT !.chain =
                    Append(@, ObjectStoreError_from_KvStoreError(CurrentError))]
    /\ UNCHANGED <<stores, poisoned, pager, thr, reg0, session, table>>

KvStoreErrorToFastlyStatus ==
    /\ MayConvert("KvStoreError")
    /\ last' = [last EXCEPT !.chain =
                    Append(@, FastlyStatus_from_KvStoreError(CurrentError))]
    /\ UNCHANGED <<stores, poisoned, pager, thr, reg0, session, table>>

ObjectStoreErrorToFastlyStatus ==
    /\ MayConvert("ObjectStoreError")
    /\ last' = [last EXCEPT !.chain =
                    Append(@, FastlyStatus_from_ObjectStoreError(CurrentError))]
    /\ UNCHANGED <<stores, poisoned, pager, thr, reg0, session, table>>

NextError ==
    \/ KvErrorToKvStoreError
    \/ KvStoreErrorToKvError
    \/ KvStoreErrorToObjectStoreError
    \/ KvStoreErrorToFastlyStatus
    \/ ObjectStoreErrorToFastlyStatus

SpecError == InitError /\ [][NextError]_vars

-----------------------------------------------------------------------------
(* Properties of the conversions, checked under SpecError. *)

\* The value is a variant of its type.
IsVariant(e) ==
    IF e.ty \in {"KvError", "KvStoreError"} THEN e.v \in KvVariants
    ELSE IF e.ty = "ObjectStoreError"
    THEN e.v \in {"MissingObject", "PoisonedLock", "UnknownObjectStore"}
    ELSE e.ty = "FastlyStatus" /\ e.v \in {"Ok", "None", "Inval"}

\* KvError -> KvStoreError -> KvError gives the value back.
RoundTrip ==
    \A i \in 1..(Len(last.chain) - 2) :
        (/\ last.chain[i].ty = "KvError"
         /\ last.chain[i + 1].ty = "KvStoreError"
         /\ last.chain[i + 2].ty = "KvError")
            => last.chain[i + 2] = last.chain[i]

\* C22: every conversion gives a variant of its target type for every
\* variant of its source type, none panics, and KvError -> KvStoreError ->
\* KvError is the identity.
C22_ConversionsTotal ==
    (last.op = "error")
        => /\ \A i \in 1..Len(last.chain) :
                 last.chain[i] # ConversionPanic /\ IsVariant(last.chain[i])
           /\ RoundTrip

\* What the conversions do hold: a panic comes only from KvStoreError
\* Uninitialized or ObjectStoreError PoisonedLock converted to FastlyStatus;
\* every other conversion gives a variant, and the round trip is the identity.
ConversionsTotalButTwo ==
    (last.op = "error")
        => /\ \A i \in 1..Len(last.chain) :
                 IF last.chain[i] = ConversionPanic
                 THEN /\ i > 1
                      /\ \/ last.chain[i - 1] = ErrorValue("KvStoreError", "Uninitialized", "")
                         \/ last.chain[i - 1] = ErrorValue("ObjectStoreError", "PoisonedLock", "")
                 ELSE IsVariant(last.chain[i])
           /\ RoundTrip

====
